---------------------------- MODULE Spec2Model ----------------------------
(***************************************************************************)
(* A model of absfuyu's list and dict extensions, ListExt                  *)
(* (src/src/absfuyu/dxt/listext.py) and DictExt                            *)
(* (src/src/absfuyu/dxt/dictext.py).                                       *)
(*                                                                         *)
(* Every method modelled is one action: it reads the receiver `self`       *)
(* and its arguments, records the call in `op` and `args` and the value    *)
(* returned in `ret`.  The one object a method changes besides is the      *)
(* caller's points list handed to slice_points, kept in `points`.          *)
(* Python lists are sequences; list indices here are Python's (from 0).    *)
(*                                                                         *)
(* The retry decorator (src/src/absfuyu/util/performance.py) and           *)
(* APIRequest.fetch_data (src/src/absfuyu/util/api.py) are modelled step   *)
(* by step: `pc` is where the call under way stands, `locals` its local    *)
(* variables, `trace` what it has done outside the program (invocations    *)
(* of the wrapped function, sleeps, file reads and writes, requests) and   *)
(* `cache` the file at the cache path.                                     *)
(***************************************************************************)
EXTENDS Integers, Sequences, FiniteSets, TLC

VARIABLES
    self,      \* the ListExt or DictExt the methods are called on
    points,    \* the list object the caller hands to slice_points
    op,        \* the method called last ("none" before the first call)
    args,      \* the arguments of that call, as they were when it was made
    ret,       \* what that call returned
    hashseed,  \* hash(s) of each str s in this process (it differs between runs)
    other_dict, \* the dict object the caller hands to DictExt.aggregate
    pc,        \* where the call under way of a wrapper or of fetch_data stands
    locals,    \* the local variables of that call
    trace,     \* what the calls have done outside the program so far, in order
    cache      \* the file at the path given as json_cache

vars ==
    <<self, points, op, args, ret, hashseed, other_dict,
      pc, locals, trace, cache>>

\* No wrapper and no fetch_data is at work.
NoProcess == pc = "none" /\ locals = <<>> /\ trace = <<>> /\ cache = <<>>

\* What the methods of ListExt and DictExt leave alone besides the receiver
process == <<pc, locals, trace, cache>>

-----------------------------------------------------------------------------
(* Bounds of the model.                                                    *)

MaxLen == 3       \* longest receiver of the slicing methods
MaxElem == 2      \* the receiver's elements are 1..MaxElem
MaxCuts == 2      \* longest points list a caller builds
MaxReuse == 2     \* how often a caller hands the same points list again
MaxSortLen == 4   \* longest mixed list handed to sorts
MaxNodes == 4     \* most values (elements, their elements, ...) in a nested list
MaxPasses == 8    \* passes of flatten's loop followed before giving up
MaxPairs == 3     \* longest list of pairs over GroupValues
MaxChain == 5     \* most pairs in a chain
MaxLoopArg == 4   \* largest max_loop passed to group_by_pair_value
MaxStrPerturb == 1  \* the hash of a str has bits 5.. in 0..MaxStrPerturb
MaxFreqLen == 3    \* longest list handed to freq
MaxFirstChar == 3  \* largest num_of_first_char passed to freq
MaxDictLen == 3    \* most items of a DictExt handed to analyze and swap_items
MaxAggregateLen == 2  \* most items of each dict handed to aggregate
MaxRandom == 3     \* largest number_of_items passed to get_random, the default apart

-----------------------------------------------------------------------------
(* Python built-ins the methods use.                                       *)

Min(a, b) == IF a <= b THEN a ELSE b

Max(a, b) == IF a >= b THEN a ELSE b

\* seq[::-1]
Reverse(s) == [i \in 1..Len(s) |-> s[Len(s) + 1 - i]]

\* Where a slice bound i lands in a list of length n: a negative bound counts
\* from the end, and the bound is then cut to 0..n.
SliceBound(i, n) == IF i < 0 THEN Max(i + n, 0) ELSE Min(i, n)

\* seq[i:j]
PySlice(s, i, j) ==
    LET lo == SliceBound(i, Len(s))
        hi == SliceBound(j, Len(s))
    IN  IF lo >= hi THEN <<>> ELSE [k \in 1..(hi - lo) |-> s[lo + k]]

\* list(range(start, stop, step)) for a step >= 1
RECURSIVE PyRange(_, _, _)
PyRange(start, stop, step) ==
    IF start >= stop THEN <<>>
    ELSE <<start>> \o PyRange(start + step, stop, step)

\* seq[1:]
Rest(s) == IF s = <<>> THEN <<>> ELSE Tail(s)

\* chain(*lists): the lists one after the other
RECURSIVE Concat(_)
Concat(ss) == IF ss = <<>> THEN <<>> ELSE Head(ss) \o Concat(Tail(ss))

\* list.count(e)
Count(s, e) == Cardinality({i \in 1..Len(s) : s[i] = e})

\* The hashes of a process in which no str is hashed.
NoStrHashes == <<>>

\* All sequences over S of length at most n.
SeqsUpTo(S, n) == UNION {[1..k -> S] : k \in 0..n}

-----------------------------------------------------------------------------
(* absfuyu.util.set_min_max: value cut to min_value..max_value.            *)

set_min_max(value, min_value, max_value) ==
    Min(Max(value, min_value), max_value)

-----------------------------------------------------------------------------
(* head, tail                                                              *)

head(s, number_of_items) ==
    LET n == set_min_max(number_of_items, 0, Len(s))
    IN  PySlice(s, 0, n)

\* tail with the last reversal forgotten
tail_reversed(s, number_of_items) ==
    LET n == set_min_max(number_of_items, 0, Len(s))
    IN  PySlice(Reverse(s), 0, n)

tail(s, number_of_items) ==
    LET n == set_min_max(number_of_items, 0, Len(s))
    IN  Reverse(PySlice(Reverse(s), 0, n))

-----------------------------------------------------------------------------
(* slice_points, split_chunk                                               *)

\* points.append(len(self)): the caller's list after the call
slice_points_appended(s, pts) == Append(pts, Len(s))

\* slice_points without the final cut at len(self)
slice_points_no_last_cut(s, pts) ==
    LET starts == <<0>> \o SubSeq(pts, 1, Len(pts) - 1)
    IN  [k \in 1..Len(pts) |-> PySlice(s, starts[k], pts[k])]

\* zip([0] + points[:-1], points) over the appended list, each pair a slice
slice_points(s, pts) ==
    LET p == slice_points_appended(s, pts)
        starts == <<0>> \o SubSeq(p, 1, Len(p) - 1)
    IN  [k \in 1..Len(p) |-> PySlice(s, starts[k], p[k])]

\* split_chunk with the cut at 0 kept (range(...) without [1:])
split_chunk_cut_at_zero(s, chunk_size) ==
    LET cuts == PyRange(0, Len(s), Max(chunk_size, 1))
    IN  slice_points(s, cuts)

split_chunk(s, chunk_size) ==
    LET cuts == Rest(PyRange(0, Len(s), Max(chunk_size, 1)))
    IN  slice_points(s, cuts)

-----------------------------------------------------------------------------
(* The slicing methods as actions.                                         *)

\* The list of the documented split_chunk example: seventeen 1s.
DocChunkList == [i \in 1..17 |-> 1]

SliceLists == SeqsUpTo(1..MaxElem, MaxLen) \cup {DocChunkList}

\* Counts and sizes a caller passes: below, inside and above the range.
SliceCounts == (0 - 2)..(MaxLen + 2)

ChunkSizes == (0 - 1)..(MaxLen + 2)

\* Cut indices a caller writes into a points list.
CutIndices == (0 - 1)..(MaxLen + 1)

PointLists == SeqsUpTo(CutIndices, MaxCuts)

InitSlice ==
    /\ self \in SliceLists
    /\ points = <<>>
    /\ other_dict = <<>>
    /\ op = "none"
    /\ NoProcess
    /\ args = <<>>
    /\ ret = <<>>
    /\ hashseed = NoStrHashes

DoHead(n) ==
    /\ op' = "head"
    /\ args' = <<n>>
    /\ ret' = head(self, n)
    /\ UNCHANGED <<self, points, hashseed, other_dict, process>>

DoTail(n) ==
    /\ op' = "tail"
    /\ args' = <<n>>
    /\ ret' = tail(self, n)
    /\ UNCHANGED <<self, points, hashseed, other_dict, process>>

DoSplitChunk(k) ==
    /\ op' = "split_chunk"
    /\ args' = <<k>>
    /\ ret' = split_chunk(self, k)
    /\ UNCHANGED <<self, points, hashseed, other_dict, process>>

NextSlice ==
    \/ \E n \in SliceCounts : DoHead(n)
    \/ \E n \in SliceCounts : DoTail(n)
    \/ \E k \in ChunkSizes : DoSplitChunk(k)

SpecSlice == InitSlice /\ [][NextSlice]_vars

\* The caller builds its points list p and calls slice_points(p).
DoSlicePoints(p) ==
    /\ points = <<>>
    /\ op' = "slice_points"
    /\ args' = <<p>>
    /\ ret' = slice_points(self, p)
    /\ points' = slice_points_appended(self, p)
    /\ UNCHANGED <<self, hashseed, other_dict, process>>

\* The caller calls slice_points again with the list object it passed before,
\* which the earlier call left in `points`.
DoSlicePointsAgain ==
    /\ points # <<>>
    /\ Len(points) < MaxCuts + 1 + MaxReuse
    /\ op' = "slice_points"
    /\ args' = <<points>>
    /\ ret' = slice_points(self, points)
    /\ points' = slice_points_appended(self, points)
    /\ UNCHANGED <<self, hashseed, other_dict, process>>

NextPoints ==
    \/ \E p \in PointLists : DoSlicePoints(p)
    \/ DoSlicePointsAgain

SpecPoints == InitSlice /\ [][NextPoints]_vars

-----------------------------------------------------------------------------
(* sorts                                                                   *)
(*                                                                         *)
(* An element of a mixed list is a pair <<t, v>>: t its Python type and v  *)
(* its value.  v is the number of an int, the characters of a str (code    *)
(* points), the tenths of a float with one decimal (14 is 1.4), and the    *)
(* identity of an object of a user class Obj whose __str__ returns "o" for *)
(* every instance.  x[1] is the type of an element x and x[2] its value.  *)

PyInt(n) == <<"int", n>>

PyStr(s) == <<"str", s>>

PyFloat(tenths) == <<"float", tenths>>

PyObj(id) == <<"Obj", id>>

\* type(x)
TypeOf(x) == x[1]

\* The characters of str(n) for an int n >= 0; "0" is code point 48.
RECURSIVE Digits(_)
Digits(n) ==
    IF n < 10 THEN <<48 + n>> ELSE Digits(n \div 10) \o <<48 + (n % 10)>>

\* str(x) and repr(x); "-" is code point 45, "." is 46, "o" is 111, "'" is 39,
\* "None" is 78, 111, 110, 101,
\* "(" is 40, ")" is 41, "," is 44 and " " is 32.  The str of a tuple is the
\* repr of its elements between brackets: (2, 1), ('ab', 1).
RECURSIVE StrOf(_), ReprOf(_), JoinRepr(_)
StrOf(x) ==
    CASE x[1] = "int" ->
            IF x[2] < 0 THEN <<45>> \o Digits(0 - x[2]) ELSE Digits(x[2])
      [] x[1] = "str" -> x[2]
      [] x[1] = "float" -> Digits(x[2] \div 10) \o <<46>> \o Digits(x[2] % 10)
      [] x[1] = "Obj" -> <<111>>
      [] x[1] = "tuple" -> <<40>> \o JoinRepr(x[2]) \o <<41>>
      [] x[1] = "NoneType" -> <<78, 111, 110, 101>>

ReprOf(x) == IF x[1] = "str" THEN <<39>> \o x[2] \o <<39>> ELSE StrOf(x)

JoinRepr(xs) ==
    IF Len(xs) = 0 THEN <<>>
    ELSE IF Len(xs) = 1 THEN ReprOf(xs[1])
    ELSE ReprOf(xs[1]) \o <<44, 32>> \o JoinRepr(Tail(xs))

\* a < b for two str: the first differing character decides, and a proper
\* prefix is the smaller.
RECURSIVE StrLess(_, _)
StrLess(a, b) ==
    IF b = <<>> THEN FALSE
    ELSE IF a = <<>> THEN TRUE
    ELSE IF Head(a) # Head(b) THEN Head(a) < Head(b)
    ELSE StrLess(Tail(a), Tail(b))

\* type_weights scanned from the right end of the list
RECURSIVE type_weights_from_right(_)
type_weights_from_right(lst) ==
    IF lst = <<>> THEN <<>>
    ELSE LET last == TypeOf(lst[Len(lst)])
             seen == type_weights_from_right(SubSeq(lst, 1, Len(lst) - 1))
         IN  <<last>> \o SelectSeq(seen, LAMBDA ty : ty # last)

\* The dict type_weights, as the types in the order of their weights 0, 1, ...:
\* a type not met before gets the next weight.
RECURSIVE type_weights(_)
type_weights(lst) ==
    IF lst = <<>> THEN <<>>
    ELSE LET seen == type_weights(SubSeq(lst, 1, Len(lst) - 1))
             last == TypeOf(lst[Len(lst)])
         IN  IF \E i \in 1..Len(seen) : seen[i] = last THEN seen
             ELSE Append(seen, last)

\* type_weights[ty]
WeightOf(weights, ty) == (CHOOSE i \in 1..Len(weights) : weights[i] = ty) - 1

\* The sort key compared on the values themselves, not on their str()
sort_key_less_by_value(weights, x, y) ==
    LET wx == WeightOf(weights, TypeOf(x))
        wy == WeightOf(weights, TypeOf(y))
    IN  \/ wx < wy
        \/ wx = wy /\ IF x[1] = "str" THEN StrLess(x[2], y[2]) ELSE x[2] < y[2]

\* key(x) < key(y) for key = lambda x: (type_weights[type(x)], str(x))
sort_key_less(weights, x, y) ==
    LET wx == WeightOf(weights, TypeOf(x))
        wy == WeightOf(weights, TypeOf(y))
    IN  \/ wx < wy
        \/ wx = wy /\ StrLess(StrOf(x), StrOf(y))

\* x put into the sorted list s behind every element whose key is not greater
StableInsert(weights, s, x) ==
    LET before == {i \in 1..Len(s) : ~ sort_key_less(weights, x, s[i])}
        n == Cardinality(before)
    IN  SubSeq(s, 1, n) \o <<x>> \o SubSeq(s, n + 1, Len(s))

\* sorted(lst, key=...): a stable sort
RECURSIVE StableSort(_, _)
StableSort(weights, lst) ==
    IF lst = <<>> THEN <<>>
    ELSE StableInsert(weights,
                      StableSort(weights, SubSeq(lst, 1, Len(lst) - 1)),
                      lst[Len(lst)])

\* sorted(lst, key=..., reverse=reverse): with reverse the list is reversed,
\* sorted and reversed again, which keeps equal keys in their input order.
PySorted(weights, lst, reverse) ==
    IF reverse THEN Reverse(StableSort(weights, Reverse(lst)))
    ELSE StableSort(weights, lst)

sorts(lst, reverse) == PySorted(type_weights(lst), lst, reverse)

\* The list of the documented example: [9, "abc", 3.5, "aaa", 1, 1.4].
DocSortList ==
    <<PyInt(9), PyStr(<<97, 98, 99>>), PyFloat(35), PyStr(<<97, 97, 97>>),
      PyInt(1), PyFloat(14)>>

\* Elements of the mixed lists: 9, 10, "aaa", "abc", 1.4, 3.5 and two Obj.
SortElems ==
    {PyInt(9), PyInt(10), PyStr(<<97, 97, 97>>), PyStr(<<97, 98, 99>>),
     PyFloat(14), PyFloat(35), PyObj(1), PyObj(2)}

SortLists == SeqsUpTo(SortElems, MaxSortLen) \cup {DocSortList}

InitSort ==
    /\ self \in SortLists
    /\ points = <<>>
    /\ other_dict = <<>>
    /\ op = "none"
    /\ NoProcess
    /\ args = <<>>
    /\ ret = <<>>
    /\ hashseed = NoStrHashes

DoSorts(reverse) ==
    /\ op' = "sorts"
    /\ args' = <<reverse>>
    /\ ret' = sorts(self, reverse)
    /\ UNCHANGED <<self, points, hashseed, other_dict, process>>

NextSort == \E reverse \in BOOLEAN : DoSorts(reverse)

SpecSort == InitSort /\ [][NextSort]_vars

-----------------------------------------------------------------------------
(* flatten                                                                 *)
(*                                                                         *)
(* A nested list holds, besides int and str elements, lists and tuples:    *)
(* pairs <<t, v>> with v the sequence of their elements.                   *)

PyList(items) == <<"list", items>>

PyTuple(items) == <<"tuple", items>>

\* isinstance(item, str)
IsStr(item) == item[1] = "str"

\* isinstance(item, Iterable)
IsIterable(item) == item[1] \in {"str", "list", "tuple"}

\* list(item) for an iterable item: a str gives its characters, each a str.
IterItems(item) ==
    IF IsStr(item) THEN [i \in 1..Len(item[2]) |-> PyStr(<<item[2][i]>>)]
    ELSE item[2]

\* instance_checking without its test for str
instance_checking_no_str(item) ==
    IF IsIterable(item) THEN IterItems(item) ELSE <<item>>

instance_checking(item) ==
    IF IsStr(item) THEN <<item>>
    ELSE IF IsIterable(item) THEN IterItems(item)
    ELSE <<item>>

\* flatten(): self.__class__(chain(*list_of_list))
flatten_once(s) == Concat([i \in 1..Len(s) |-> instance_checking(s[i])])

\* _condition without its test for str
flatten_condition_no_str(item) == IsIterable(item)

\* _condition
flatten_condition(item) ==
    IF IsStr(item) THEN FALSE ELSE IsIterable(item)

\* What a call that is still in its loop after MaxPasses passes has returned.
NotReturned == << <<"not returned", <<>> >> >>

\* while any(flattened.apply(_condition)): flattened = flattened.flatten()
RECURSIVE flatten_loop(_, _)
flatten_loop(flattened, passes) ==
    IF ~ \E i \in 1..Len(flattened) : flatten_condition(flattened[i])
    THEN flattened
    ELSE IF passes = 0 THEN NotReturned
    ELSE flatten_loop(flatten_once(flattened), passes - 1)

flatten(s, recursive) ==
    IF recursive THEN flatten_loop(flatten_once(s), MaxPasses)
    ELSE flatten_once(s)

\* The elements a nested list is built from: 1, "ab", [] and ().
FlatAtoms == {PyInt(1), PyStr(<<97, 98>>)}

\* The elements made of exactly n values (themselves included), and the lists
\* of elements made of exactly n values together.
RECURSIVE NestedOfSize(_), ListsOfSize(_)
NestedOfSize(n) ==
    IF n = 1 THEN FlatAtoms \cup {PyList(<<>>), PyTuple(<<>>)}
    ELSE {PyList(s) : s \in ListsOfSize(n - 1)}
         \cup {PyTuple(s) : s \in ListsOfSize(n - 1)}

ListsOfSize(n) ==
    IF n = 0 THEN {<<>>}
    ELSE UNION {{<<x>> \o s : x \in NestedOfSize(j), s \in ListsOfSize(n - j)} :
                j \in 1..n}

NestedLists == UNION {ListsOfSize(n) : n \in 0..MaxNodes}

InitFlatten ==
    /\ self \in NestedLists
    /\ points = <<>>
    /\ other_dict = <<>>
    /\ op = "none"
    /\ NoProcess
    /\ args = <<>>
    /\ ret = <<>>
    /\ hashseed = NoStrHashes

DoFlatten(recursive) ==
    /\ op' = "flatten"
    /\ args' = <<recursive>>
    /\ ret' = flatten(self, recursive)
    /\ UNCHANGED <<self, points, hashseed, other_dict, process>>

NextFlatten == \E recursive \in BOOLEAN : DoFlatten(recursive)

SpecFlatten == InitFlatten /\ [][NextFlatten]_vars

-----------------------------------------------------------------------------
(* list(set(...))                                                          *)
(*                                                                         *)
(* group_by_pair_value turns each group into list(set(...)) and compares   *)
(* the lists, so the order in which a set is iterated matters.  Python     *)
(* leaves it open; CPython iterates the slots of the set's hash table, so  *)
(* the order follows from the hashes and from the order of insertion.      *)
(* This is CPython's table: 8 slots at first, a slot chosen by             *)
(* hash & mask, on a collision the next slot i*5 + 1 + perturb, and a      *)
(* table of used*4 rounded up to a power of two once 3/5 of it is filled.  *)

SetMinSize == 8        \* PySet_MINSIZE

SetLinearProbes == 9   \* LINEAR_PROBES

SetPerturbShift == 32  \* 2 ** PERTURB_SHIFT

\* A slot that holds no key.
EmptySlot == <<"empty", 0>>

\* hash(x): an int (0 <= x < 2**61 - 1) is its own hash, the hash of a str
\* is drawn per process.
HashOf(x) == IF x[1] = "int" THEN x[2] ELSE hashseed[x[2]]

\* The slot where key is found, or the unused slot where it goes, looking from
\* slot i on: slot i and, if they are inside the table, the SetLinearProbes
\* slots behind it, then the same from slot i*5 + 1 + perturb.
RECURSIVE SetLookup(_, _, _, _, _)
SetLookup(table, mask, key, i, perturb) ==
    LET last == IF i + SetLinearProbes <= mask THEN i + SetLinearProbes ELSE i
        hits == {j \in i..last : table[j] = EmptySlot \/ table[j] = key}
        shifted == perturb \div SetPerturbShift
    IN  IF hits # {} THEN CHOOSE j \in hits : \A k \in hits : j <= k
        ELSE SetLookup(table, mask, key, (i * 5 + 1 + shifted) % (mask + 1),
                       shifted)

\* The slot of key in the table.
SetSlot(table, mask, key) ==
    SetLookup(table, mask, key, HashOf(key) % (mask + 1), HashOf(key))

\* The smallest table size above minused: 8, 16, 32, ...
RECURSIVE SetNewSize(_, _)
SetNewSize(size, minused) ==
    IF size > minused THEN size ELSE SetNewSize(size * 2, minused)

\* The keys of the old table put into the new one, from old slot `from` on.
RECURSIVE SetReinsert(_, _, _, _, _)
SetReinsert(old, oldmask, from, new, newmask) ==
    IF from > oldmask THEN new
    ELSE IF old[from] = EmptySlot
         THEN SetReinsert(old, oldmask, from + 1, new, newmask)
    ELSE SetReinsert(old, oldmask, from + 1,
                     [new EXCEPT ![SetSlot(new, newmask, old[from])] = old[from]],
                     newmask)

\* set_table_resize
SetResize(so) ==
    LET size == SetNewSize(SetMinSize, so.fill * 4)
        empty == [i \in 0..(size - 1) |-> EmptySlot]
    IN  [table |-> SetReinsert(so.table, so.mask, 0, empty, size - 1),
         mask |-> size - 1, fill |-> so.fill]

\* set.add(key)
SetAdd(so, key) ==
    LET slot == SetSlot(so.table, so.mask, key)
        added == [so EXCEPT !.table[slot] = key, !.fill = @ + 1]
    IN  IF so.table[slot] = key THEN so
        ELSE IF added.fill * 5 < added.mask * 3 THEN added
        ELSE SetResize(added)

\* set(xs): the elements of xs added one after the other to an empty set
RECURSIVE SetOf(_)
SetOf(xs) ==
    IF xs = <<>>
    THEN [table |-> [i \in 0..(SetMinSize - 1) |-> EmptySlot],
          mask |-> SetMinSize - 1, fill |-> 0]
    ELSE SetAdd(SetOf(SubSeq(xs, 1, Len(xs) - 1)), xs[Len(xs)])

\* list(set(xs)): the keys in the order of their slots
ListOfSet(xs) ==
    LET so == SetOf(xs)
    IN  SelectSeq([i \in 1..(so.mask + 1) |-> so.table[i - 1]],
                  LAMBDA k : k # EmptySlot)

-----------------------------------------------------------------------------
(* group_by_pair_value                                                     *)

DefaultMaxLoop == 3    \* max_loop: int = 3

MinLoop == 3           \* range(max(max_loop, 3))

\* The keys of a dict filled in the order of xs: each value once, in the order
\* of its first occurrence.
RECURSIVE DictKeys(_)
DictKeys(xs) ==
    IF xs = <<>> THEN <<>>
    ELSE LET keys == DictKeys(SubSeq(xs, 1, Len(xs) - 1))
             x == xs[Len(xs)]
         IN  IF \E i \in 1..Len(keys) : keys[i] = x THEN keys
             ELSE Append(keys, x)

\* temp[x] with the first item that holds x and no other
group_items_of_first(iter, x) ==
    LET holding == {i \in 1..Len(iter) : Count(iter[i], x) > 0}
    IN  <<iter[CHOOSE i \in holding : \A j \in holding : i <= j]>>

\* temp[x] once every item is scanned: each item, once per occurrence of x in it
group_items_of(iter, x) ==
    Concat([i \in 1..Len(iter) |-> [j \in 1..Count(iter[i], x) |-> iter[i]]])

\* One pass of the loop: a group per value met, in the order the values are met,
\* the group list(set(chain(*temp[x]))).
group_pass(iter) ==
    LET keys == DictKeys(Concat(iter))
    IN  [i \in 1..Len(keys) |->
            ListOfSet(Concat(group_items_of(iter, keys[i])))]

\* One pass fewer than max(max_loop, 3)
group_passes_one_less(max_loop) == Max(max_loop, MinLoop) - 1

\* The number of passes: range(max(max_loop, 3))
group_passes(max_loop) == Max(max_loop, MinLoop)

RECURSIVE group_loop(_, _)
group_loop(iter, passes) ==
    IF passes = 0 THEN iter ELSE group_loop(group_pass(iter), passes - 1)

\* The keys of groupby with no run of equal groups merged
groupby_keys_unmerged(xs) == xs

\* list(x for x, _ in groupby(xs)): each run of equal neighbours once
groupby_keys(xs) ==
    LET firsts == {i \in 1..Len(xs) : i = 1 \/ xs[i] # xs[i - 1]}
        nth(k) == CHOOSE i \in firsts :
                      Cardinality({j \in firsts : j <= i}) = k
    IN  [k \in 1..Cardinality(firsts) |-> xs[nth(k)]]

group_by_pair_value(lst, max_loop) ==
    groupby_keys(group_loop(lst, group_passes(max_loop)))

\* The lists of the documented examples.
IntPairs(ps) == [i \in 1..Len(ps) |-> <<PyInt(ps[i][1]), PyInt(ps[i][2])>>]

DocGroupList1 == IntPairs(<< <<1, 2>>, <<2, 3>>, <<4, 3>>, <<5, 6>> >>)

DocGroupList2 ==
    IntPairs(<< <<8, 3>>, <<4, 6>>, <<6, 3>>, <<5, 2>>, <<7, 2>> >>)

\* [["a", 4], ["b", 4], [5, "c"]]
DocGroupList3 ==
    << <<PyStr(<<97>>), PyInt(4)>>, <<PyStr(<<98>>), PyInt(4)>>,
       <<PyInt(5), PyStr(<<99>>)>> >>

DocGroupStrs == {<<97>>, <<98>>, <<99>>}

\* The values of the pairs: 8 and 9 fall into the slots of 0 and 1 in a set's
\* table of 8 slots.
GroupValues == {PyInt(0), PyInt(1), PyInt(8), PyInt(9)}

GroupPairs == {p \in GroupValues \X GroupValues : p[1][2] <= p[2][2]}

\* The chain [1, 2], [2, 3], ..., [n, n + 1], its pairs in any order.
ChainLists(n) ==
    {[i \in 1..n |-> <<PyInt(f[i]), PyInt(f[i] + 1)>>] :
        f \in {g \in [1..n -> 1..n] : \A i, j \in 1..n : g[i] = g[j] => i = j}}

\* A value paired with itself, then the three pairs of a path through the four
\* values of GroupValues, the pairs in any order.
SelfThenPathLists ==
    LET paths == {f \in [1..4 -> GroupValues] :
                     \A i, j \in 1..4 : f[i] = f[j] => i = j}
        pair(a, b) == IF a[2] <= b[2] THEN <<a, b>> ELSE <<b, a>>
        edges(f) == {pair(f[i], f[i + 1]) : i \in 1..3}
    IN  {<<v, v>> : v \in GroupValues}
        \X UNION {{l \in [1..3 -> edges(f)] :
                      \A i, j \in 1..3 : l[i] = l[j] => i = j} : f \in paths}

GroupLists ==
    SeqsUpTo(GroupPairs, MaxPairs)
    \cup UNION {ChainLists(n) : n \in 1..MaxChain}
    \cup {<<sp[1]>> \o sp[2] : sp \in SelfThenPathLists}
    \cup {DocGroupList1, DocGroupList2}

\* The hashes a str may have: any slot of a table of SetMinSize slots, any
\* perturbation in 0..MaxStrPerturb of the slot probed after a collision.
StrHashes ==
    {slot + SetPerturbShift * perturb :
        slot \in 0..(SetMinSize - 1), perturb \in 0..MaxStrPerturb}

\* The max_loop a caller passes: below the minimum, the default, above.
LoopArgs == (MinLoop - 1)..MaxLoopArg

InitGroup ==
    /\ \/ /\ self \in GroupLists
          /\ hashseed = NoStrHashes
       \/ /\ self = DocGroupList3
          /\ hashseed \in [DocGroupStrs -> StrHashes]
    /\ points = <<>>
    /\ other_dict = <<>>
    /\ op = "none"
    /\ NoProcess
    /\ args = <<>>
    /\ ret = <<>>

\* The call on the list as built: it leaves the list as it was, a second call
\* is the first one again.
DoGroupByPairValue(max_loop) ==
    /\ op = "none"
    /\ op' = "group_by_pair_value"
    /\ args' = <<max_loop>>
    /\ ret' = group_by_pair_value(self, max_loop)
    /\ UNCHANGED <<self, points, hashseed, other_dict, process>>

NextGroup == \E max_loop \in LoopArgs : DoGroupByPairValue(max_loop)

SpecGroup == InitGroup /\ [][NextGroup]_vars

-----------------------------------------------------------------------------
(* Claims on head, tail and split_chunk (SpecSlice) and on slice_points    *)
(* (SpecPoints).                                                           *)

\* ceil(a / b) for b >= 1
CeilDiv(a, b) == (a + b - 1) \div b

\* The lengths of the lists in a list of lists.
Sizes(ss) == [i \in 1..Len(ss) |-> Len(ss[i])]

\* The statement of C7 as claimed: split_chunk gives ceil(len/k) chunks whose
\* concatenation is the list, all of k elements but the last, which has 1..k;
\* seventeen elements in chunks of 5 give sizes 5,5,5,2.
SplitChunkSizes(s, k, chunks) ==
    /\ Concat(chunks) = s
    /\ \A i \in 1..(Len(chunks) - 1) : Len(chunks[i]) = k
    /\ chunks # <<>> => Len(chunks[Len(chunks)]) \in 1..k
    /\ Len(chunks) = CeilDiv(Len(s), k)
    /\ (s = DocChunkList /\ k = 5) => Sizes(chunks) = <<5, 5, 5, 2>>

\* C7 as claimed, the empty list included: violated by the empty list.
C7_SplitChunkAnyList ==
    op = "split_chunk" => SplitChunkSizes(self, Max(args[1], 1), ret)

\* C7 (amended): for every non-empty list and every integer chunk_size, with
\* k = max(chunk_size, 1), split_chunk returns ceil(len/k) contiguous chunks whose
\* concatenation is the list, each of k elements but the last, which has 1..k;
\* the empty list gives the one chunk [], not no chunk.
C7_SplitChunk ==
    op = "split_chunk" =>
        IF self = <<>> THEN ret = << <<>> >>
        ELSE SplitChunkSizes(self, Max(args[1], 1), ret)

C7_Witness ==
    /\ op = "split_chunk"
    /\ self = DocChunkList
    /\ args = <<5>>
    /\ Len(ret) = 4

\* A points list of non-decreasing cut indices within 0..n.
IsCutList(p, n) ==
    /\ \A i \in 1..Len(p) : p[i] \in 0..n
    /\ \A i \in 1..(Len(p) - 1) : p[i] <= p[i + 1]

C9_SlicePointsPure ==
    [][op' = "slice_points" =>
          /\ self' = self
          /\ points' = args'[1]
          /\ (op = "slice_points" /\ args' = <<points>>) => ret' = ret]_vars

\* C10: with c = min(max(n, 0), len(s)), head(n) is the first c elements and
\* tail(n) the last c elements in their original order; head(n) followed by
\* tail(len(s) - n) is s for 0 <= n <= len(s), and tail(0) is empty.
C10_HeadTail ==
    LET n == args[1]
        len == Len(self)
        c == IF n < 0 THEN 0 ELSE IF n > len THEN len ELSE n
    IN  /\ op = "head" =>
            /\ ret = SubSeq(self, 1, c)
            /\ n \in 0..len => ret \o tail(self, len - n) = self
        /\ op = "tail" =>
            /\ ret = SubSeq(self, len - c + 1, len)
            /\ n = 0 => ret = <<>>
            /\ n \in 0..len => head(self, len - n) \o ret = self

C10_Witness ==
    /\ op = "tail"
    /\ Len(self) = 3
    /\ args = <<2>>
    /\ ret = <<self[2], self[3]>>
    /\ self[2] # self[3]

-----------------------------------------------------------------------------
(* Claims on sorts (SpecSort).                                             *)

\* s and r hold the same elements, each as often.
IsPermutation(s, r) ==
    /\ Len(s) = Len(r)
    /\ \A i \in 1..Len(s) : Count(s, s[i]) = Count(r, s[i])

\* The position at which the type ty is first met in the list s.
FirstMet(s, ty) == CHOOSE i \in 1..Len(s) :
    /\ s[i][1] = ty
    /\ \A j \in 1..(i - 1) : s[j][1] # ty

\* x comes strictly before y in the key (type_rank, string form) of the list s.
KeyBefore(s, x, y) ==
    \/ FirstMet(s, x[1]) < FirstMet(s, y[1])
    \/ x[1] = y[1] /\ StrLess(StrOf(x), StrOf(y))

\* C3: sorts() is idempotent, on lists of mixed types too: sorting the list
\* sorts() returned gives that list again.
C3_SortsIdempotent ==
    (op = "sorts" /\ args = <<FALSE>>) => sorts(ret, FALSE) = ret

C3_Witness ==
    /\ op = "sorts"
    /\ args = <<FALSE>>
    /\ ret # self
    /\ Cardinality({self[i][1] : i \in 1..Len(self)}) >= 2

\* C4: sorts() returns a permutation of the input in ascending order of the key
\* (position at which the type is first met in the input, string form), with
\* elements of equal keys in their input order; sorts(reverse=True) returns a
\* permutation in descending order of that key.
C4_SortsOrder ==
    op = "sorts" =>
        /\ IsPermutation(self, ret)
        /\ args = <<FALSE>> =>
            /\ \A i, j \in 1..Len(ret) :
                   i < j => ~ KeyBefore(self, ret[j], ret[i])
            /\ \A i, j \in 1..Len(self) :
                   (/\ self[i] # self[j]
                    /\ ~ KeyBefore(self, self[i], self[j])
                    /\ ~ KeyBefore(self, self[j], self[i]))
                   => SelectSeq(ret, LAMBDA e : e \in {self[i], self[j]})
                        = SelectSeq(self, LAMBDA e : e \in {self[i], self[j]})
        /\ args = <<TRUE>> =>
            \A i, j \in 1..Len(ret) : i < j => ~ KeyBefore(self, ret[i], ret[j])

C4_Witness ==
    /\ op = "sorts"
    /\ args = <<FALSE>>
    /\ self = <<PyObj(2), PyInt(9), PyInt(10), PyObj(1)>>
    /\ ret = <<PyObj(2), PyObj(1), PyInt(10), PyInt(9)>>

-----------------------------------------------------------------------------
(* Claims on flatten (SpecFlatten).                                        *)

\* An element that flatten takes apart: an iterable that is no str.
IsNested(item) == item[1] \in {"list", "tuple"}

\* The leaves of a nested list, left to right.
RECURSIVE Leaves(_)
Leaves(s) ==
    IF s = <<>> THEN <<>>
    ELSE (IF IsNested(Head(s)) THEN Leaves(Head(s)[2]) ELSE <<Head(s)>>)
         \o Leaves(Tail(s))

\* The nesting depth of a list: 1 for a flat list.
RECURSIVE Depth(_)
Depth(s) ==
    LET inner == {Depth(s[i][2]) : i \in {j \in 1..Len(s) : IsNested(s[j])}}
    IN  IF inner = {} THEN 1
        ELSE 1 + (CHOOSE d \in inner : \A e \in inner : e <= d)

\* C5: on a finitely nested list flatten(recursive=True) returns; no element of
\* the result is a non-string iterable; the result holds the leaves of the input
\* from left to right; and flattening the result again returns it unchanged.
C5_FlattenRecursive ==
    (op = "flatten" /\ args = <<TRUE>>) =>
        /\ ret # NotReturned
        /\ \A i \in 1..Len(ret) : ~ IsNested(ret[i])
        /\ ret = Leaves(self)
        /\ flatten(ret, TRUE) = ret

C5_Witness ==
    /\ op = "flatten"
    /\ args = <<TRUE>>
    /\ Depth(self) >= 3
    /\ \E i \in 1..Len(ret) : IsStr(ret[i])
    /\ Len(ret) >= 2

\* C6: flatten() expands one level: a str or a non-iterable element stays, once
\* and unchanged; any other iterable element is replaced in place by its own
\* elements in order, themselves not expanded; the depth of the result is the
\* depth of the input less one, or 1 for a flat input.
C6_FlattenOneLevel ==
    (op = "flatten" /\ args = <<FALSE>>) =>
        /\ ret = Concat([i \in 1..Len(self) |->
                            IF IsNested(self[i]) THEN self[i][2]
                            ELSE <<self[i]>>])
        /\ Depth(ret) = IF Depth(self) = 1 THEN 1 ELSE Depth(self) - 1

C6_Witness ==
    /\ op = "flatten"
    /\ args = <<FALSE>>
    /\ Depth(self) = 3
    /\ Depth(ret) = 2
    /\ \E i \in 1..Len(self) : IsStr(self[i])

(***************************************************************************)
(* Claims on group_by_pair_value (SpecGroup).                              *)
(***************************************************************************)

\* The values of a list, as a set
AsSet(xs) == {xs[i] : i \in 1..Len(xs)}

\* The values that stand in some pair of lst
ValuesOf(lst) == AsSet(Concat(lst))

\* a and the values that share a pair with a
Linked(lst, a) ==
    {a} \cup UNION {AsSet(lst[i]) : i \in {j \in 1..Len(lst) : a \in AsSet(lst[j])}}

\* The values linked to a value of S by a chain of at most k pairs
RECURSIVE Within(_, _, _)
Within(lst, S, k) ==
    IF k = 0 THEN S
    ELSE Within(lst, UNION {Linked(lst, a) : a \in S}, k - 1)

\* The connected component of a in the graph whose edges are the pairs
Component(lst, a) == Within(lst, {a}, Cardinality(ValuesOf(lst)))

Components(lst) == {Component(lst, a) : a \in ValuesOf(lst)}

\* Any two values of the component C are linked by a chain of at most k pairs
SpansAtMost(lst, C, k) == \A a \in C : Within(lst, {a}, k) = C

\* The places of the result that hold exactly the values of C
GroupsOf(C) == {i \in 1..Len(ret) : AsSet(ret[i]) = C}

\* C1 as stated: with the default max_loop the groups returned are exactly the
\* connected components of the graph of the pairs, whatever its shape, and no
\* component is returned more than once.
C1_ExactComponents ==
    (op = "group_by_pair_value" /\ args = <<DefaultMaxLoop>>) =>
        /\ {AsSet(ret[i]) : i \in 1..Len(ret)} = Components(self)
        /\ \A C \in Components(self) : Cardinality(GroupsOf(C)) = 1

\* C1: with the default max_loop, a connected component in which any two values
\* are linked by a chain of at most 4 pairs is returned, and every group that
\* holds one of its values holds exactly its values; a component in which any
\* two values are linked by a chain of at most 2 pairs is returned exactly once.
C1_ComponentsWithinReach ==
    (op = "group_by_pair_value" /\ args = <<DefaultMaxLoop>>) =>
        \A C \in Components(self) :
            /\ SpansAtMost(self, C, 4) =>
                   /\ GroupsOf(C) # {}
                   /\ \A i \in 1..Len(ret) :
                          AsSet(ret[i]) \cap C # {} => AsSet(ret[i]) = C
            /\ SpansAtMost(self, C, 2) => Cardinality(GroupsOf(C)) = 1

\* A component with values three pairs apart, returned whole and twice.
C1_Witness ==
    /\ op = "group_by_pair_value"
    /\ args = <<DefaultMaxLoop>>
    /\ \E C \in Components(self) :
           /\ SpansAtMost(self, C, 4)
           /\ ~ SpansAtMost(self, C, 2)
           /\ Cardinality(GroupsOf(C)) = 2
           /\ \A i \in 1..Len(ret) : AsSet(ret[i]) = C

\* C2: on the documented inputs the call with no argument returns the
\* documented groups, each as a set of values, in the documented order:
\* {1,2,3,4} then {5,6}; {8,3,4,6} then {2,5,7}; {"a",4,"b"} then {"c",5}.
C2_DocumentedGroups ==
    (op = "group_by_pair_value" /\ args = <<DefaultMaxLoop>>) =>
        /\ self = DocGroupList1 =>
               /\ Len(ret) = 2
               /\ AsSet(ret[1]) = {PyInt(1), PyInt(2), PyInt(3), PyInt(4)}
               /\ AsSet(ret[2]) = {PyInt(5), PyInt(6)}
        /\ self = DocGroupList2 =>
               /\ Len(ret) = 2
               /\ AsSet(ret[1]) = {PyInt(8), PyInt(3), PyInt(4), PyInt(6)}
               /\ AsSet(ret[2]) = {PyInt(2), PyInt(5), PyInt(7)}
        /\ self = DocGroupList3 =>
               /\ Len(ret) = 2
               /\ AsSet(ret[1]) = {PyStr(<<97>>), PyInt(4), PyStr(<<98>>)}
               /\ AsSet(ret[2]) = {PyStr(<<99>>), PyInt(5)}

\* The third documented input, "a" and "b" hashed to the slot of 4 and "c" to
\* the slot of 5.
C2_Witness ==
    /\ op = "group_by_pair_value"
    /\ args = <<DefaultMaxLoop>>
    /\ self = DocGroupList3
    /\ hashseed[<<97>>] % SetMinSize = 4
    /\ hashseed[<<98>>] % SetMinSize = 4
    /\ hashseed[<<99>>] % SetMinSize = 5
    /\ Len(ret) = 2

-----------------------------------------------------------------------------
(* Calls that may fail, numbers, dicts                                     *)
(*                                                                         *)
(* The methods below may raise: what such a call hands back is             *)
(* Returned(value) or Raised(error).  A dict is the sequence of its items  *)
(* <<key, value>> in iteration (insertion) order.                          *)

Returned(value) == <<"return", value>>

Raised(error) == <<"raise", error>>

PyNone == <<"NoneType", 0>>

\* isinstance(x, (int, float))
IsNumber(x) == x[1] \in {"int", "float"}

\* The value of a number, in tenths: 2 and 2.0 are both 20.
NumOf(x) == IF x[1] = "int" THEN 10 * x[2] ELSE x[2]

\* x == y: an int and a float of the same value are equal (and hash alike)
PyEq(x, y) ==
    IF IsNumber(x) /\ IsNumber(y) THEN NumOf(x) = NumOf(y)
    ELSE x[1] = y[1] /\ x[2] = y[2]

\* x < y is defined between two numbers and between two str; between a
\* number and a str it raises TypeError.
Comparable(x, y) ==
    \/ IsNumber(x) /\ IsNumber(y)
    \/ x[1] = "str" /\ y[1] = "str"

\* x < y for comparable x and y
PyLess(x, y) ==
    IF IsNumber(x) THEN NumOf(x) < NumOf(y) ELSE StrLess(x[2], y[2])

\* The place of key k in the dict d, 0 if d has no such key
DictIndex(d, k) ==
    IF \E i \in 1..Len(d) : PyEq(d[i][1], k)
    THEN CHOOSE i \in 1..Len(d) : PyEq(d[i][1], k)
    ELSE 0

\* d[k] = v: a key that is there keeps its place and its key object
DictSet(d, k, v) ==
    IF DictIndex(d, k) = 0 THEN Append(d, <<k, v>>)
    ELSE [d EXCEPT ![DictIndex(d, k)] = <<d[DictIndex(d, k)][1], v>>]

\* The items set in the order of the dict, an earlier key never overwritten
RECURSIVE DictOf_first_wins(_)
DictOf_first_wins(pairs) ==
    IF pairs = <<>> THEN <<>>
    ELSE LET d == DictOf_first_wins(SubSeq(pairs, 1, Len(pairs) - 1))
             kv == pairs[Len(pairs)]
         IN  IF DictIndex(d, kv[1]) = 0 THEN Append(d, kv) ELSE d

\* dict(pairs), {k: v for ...}: the items set one after the other
RECURSIVE DictOf(_)
DictOf(pairs) ==
    IF pairs = <<>> THEN <<>>
    ELSE LET kv == pairs[Len(pairs)]
         IN  DictSet(DictOf(SubSeq(pairs, 1, Len(pairs) - 1)), kv[1], kv[2])

\* d.get(k, default)
DictGet(d, k, default) ==
    IF DictIndex(d, k) = 0 THEN default ELSE d[DictIndex(d, k)][2]

\* list(d.keys()), list(d.values())
KeysOf(d) == [i \in 1..Len(d) |-> d[i][1]]

ValuesOfDict(d) == [i \in 1..Len(d) |-> d[i][2]]

-----------------------------------------------------------------------------
(* freq                                                                    *)

\* A count of 1 for every item of data, equal to an earlier one or not
Counter_per_item(data) == [i \in 1..Len(data) |-> <<data[i], 1>>]

\* Counter(data): a dict of the counts, the keys in order of first occurrence
RECURSIVE Counter(_)
Counter(data) ==
    IF data = <<>> THEN <<>>
    ELSE LET temp == Counter(SubSeq(data, 1, Len(data) - 1))
             x == data[Len(data)]
         IN  DictSet(temp, x, DictGet(temp, x, 0) + 1)

\* if sort: data = self.sorts().copy() else: data = self.copy()
freq_data(s, sort) == IF sort THEN sorts(s, FALSE) ELSE s

\* min([len(str(x)) for x in data]) of a list that is not empty
freq_max_char(data) ==
    LET lens == {Len(StrOf(data[i])) : i \in 1..Len(data)}
    IN  CHOOSE m \in lens : \A n \in lens : m <= n

\* str(x)[:n]
StrPrefix(x, n) == PyStr(SubSeq(StrOf(x), 1, Min(n, Len(StrOf(x)))))

\* temp: the Counter of the items or of their first characters; min() of an
\* empty list raises ValueError.
freq_temp(data, num_of_first_char) ==
    IF num_of_first_char = PyNone THEN Returned(Counter(data))
    ELSE IF data = <<>> THEN Raised("ValueError")
    ELSE IF num_of_first_char[2] \notin 1..(freq_max_char(data) - 1)
         THEN Returned(Counter(data))
    ELSE Returned(Counter([i \in 1..Len(data) |->
                              StrPrefix(data[i], num_of_first_char[2])]))

\* temp.items(): tuples (key, count)
ItemsOf(temp) == [i \in 1..Len(temp) |-> PyTuple(<<temp[i][1], PyInt(temp[i][2])>>)]

\* sorted(items) of tuples whose first elements differ and are comparable
RECURSIVE SortedItems(_)
SortedItems(items) ==
    IF items = <<>> THEN <<>>
    ELSE LET done == SortedItems(SubSeq(items, 1, Len(items) - 1))
             x == items[Len(items)]
             n == Cardinality({i \in 1..Len(done) :
                                  PyLess(done[i][2][1], x[2][1])})
         IN  SubSeq(done, 1, n) \o <<x>> \o SubSeq(done, n + 1, Len(done))

\* dict(items) of a list of tuples (key, count)
DictOfItems(items) ==
    DictOf([i \in 1..Len(items) |-> <<items[i][2][1], items[i][2][2]>>])

\* try: dict(sorted(temp.items()))
\* except TypeError: dict(self.__class__(temp.items()).sorts())
freq_times_appear(temp) ==
    IF \A i, j \in 1..Len(temp) : Comparable(temp[i][1], temp[j][1])
    THEN DictOfItems(SortedItems(ItemsOf(temp)))
    ELSE DictOfItems(sorts(ItemsOf(temp), FALSE))

\* list(accumulate(times_appear.values(), operator.add))
RECURSIVE SumOf(_)
SumOf(ns) == IF ns = <<>> THEN 0 ELSE ns[1][2] + SumOf(Tail(ns))

\* The counts themselves, not summed up
freq_accumulate_counts(times_appear) == ValuesOfDict(times_appear)

freq_accumulate(times_appear) ==
    [i \in 1..Len(times_appear) |->
        PyInt(SumOf(SubSeq(ValuesOfDict(times_appear), 1, i)))]

freq(s, sort, num_of_first_char, appear_increment) ==
    LET temp == freq_temp(freq_data(s, sort), num_of_first_char)
    IN  IF temp[1] = "raise" THEN temp
        ELSE IF appear_increment
             THEN Returned(freq_accumulate(freq_times_appear(temp[2])))
        ELSE Returned(freq_times_appear(temp[2]))

\* The lists of the documented examples.
IntList(ns) == [i \in 1..Len(ns) |-> PyInt(ns[i])]

DocFreqList == IntList(<<1, 1, 2, 3, 5, 5>>)

DocFreqIncrementList == IntList(<<1, 1, 2, 3, 3, 4, 5, 6>>)

\* Elements of the lists counted: 2, 10, 12, 2.0 (equal to 2), "12" and "ab".
FreqElems ==
    {PyInt(2), PyInt(10), PyInt(12), PyFloat(20), PyStr(<<49, 50>>),
     PyStr(<<97, 98>>)}

FreqLists ==
    SeqsUpTo(FreqElems, MaxFreqLen) \cup {DocFreqList, DocFreqIncrementList}

\* num_of_first_char: None, or an int below, in and above range(1, max_char)
FirstCharArgs == {PyNone} \cup {PyInt(c) : c \in (0 - 1)..MaxFirstChar}

InitFreq ==
    /\ self \in FreqLists
    /\ points = <<>>
    /\ other_dict = <<>>
    /\ op = "none"
    /\ NoProcess
    /\ args = <<>>
    /\ ret = <<>>
    /\ hashseed = NoStrHashes

\* The call on the list as built: freq leaves the list as it was.
DoFreq(sort, num_of_first_char, appear_increment) ==
    /\ op = "none"
    /\ op' = "freq"
    /\ args' = <<sort, num_of_first_char, appear_increment>>
    /\ ret' = freq(self, sort, num_of_first_char, appear_increment)
    /\ UNCHANGED <<self, points, hashseed, other_dict, process>>

NextFreq ==
    \E sort \in BOOLEAN, num_of_first_char \in FirstCharArgs,
       appear_increment \in BOOLEAN :
        DoFreq(sort, num_of_first_char, appear_increment)

SpecFreq == InitFreq /\ [][NextFreq]_vars

-----------------------------------------------------------------------------
(* DictExt (src/src/absfuyu/dxt/dictext.py): analyze, swap_items           *)
(*                                                                         *)
(* In SpecDict and SpecAggregate `self` is the DictExt the methods are     *)
(* called on.                                                              *)

\* max(values) of a list that is not empty and whose items are comparable:
\* the first of the greatest items
RECURSIVE PyMax(_)
PyMax(values) ==
    IF Len(values) = 1 THEN values[1]
    ELSE LET m == PyMax(SubSeq(values, 1, Len(values) - 1))
             v == values[Len(values)]
         IN  IF PyLess(m, v) THEN v ELSE m

\* min(values): the first of the least items
RECURSIVE PyMin(_)
PyMin(values) ==
    IF Len(values) = 1 THEN values[1]
    ELSE LET m == PyMin(SubSeq(values, 1, Len(values) - 1))
             v == values[Len(values)]
         IN  IF PyLess(v, m) THEN v ELSE m

\* The first item only of those with the value
ItemsWithValue_first(dct, val) ==
    LET i == CHOOSE j \in 1..Len(dct) :
                 /\ PyEq(dct[j][2], val)
                 /\ \A l \in 1..(j - 1) : ~ PyEq(dct[l][2], val)
    IN  <<PyTuple(<<dct[i][1], dct[i][2]>>)>>

\* [(k, v) for k, v in dct.items() if v == val]
ItemsWithValue(dct, val) ==
    LET at == {i \in 1..Len(dct) : PyEq(dct[i][2], val)}
        nth(n) == CHOOSE i \in at : Cardinality({j \in at : j <= i}) = n
    IN  [n \in 1..Cardinality(at) |-> PyTuple(<<dct[nth(n)][1], dct[nth(n)][2]>>)]

\* analyze: max() of no value raises ValueError; a comparison of a number with
\* a str raises TypeError, which analyze turns into ValueError.  The result is
\* DictAnalyzeResult(max_value, min_value, max_list, min_list).
analyze(dct) ==
    IF dct = <<>> THEN Raised("ValueError")
    ELSE IF \E i, j \in 1..Len(dct) : ~ Comparable(dct[i][2], dct[j][2])
         THEN Raised("ValueError")
    ELSE LET max_val == PyMax(ValuesOfDict(dct))
             min_val == PyMin(ValuesOfDict(dct))
         IN  Returned(<<max_val, min_val, ItemsWithValue(dct, max_val),
                        ItemsWithValue(dct, min_val)>>)

\* The pairs (v, k) of the dict's items (k, v)
SwappedPairs(dct) == [i \in 1..Len(dct) |-> <<dct[i][2], dct[i][1]>>]

\* swap_items: {v: k for k, v in self.items()}
swap_items(dct) == DictOf(SwappedPairs(dct))

\* {"abc": 9, "def": 9, "ghi": 8, "jkl": 1, "mno": 1}
DocAnalyzeDict ==
    << <<PyStr(<<97, 98, 99>>), PyInt(9)>>, <<PyStr(<<100, 101, 102>>), PyInt(9)>>,
       <<PyStr(<<103, 104, 105>>), PyInt(8)>>, <<PyStr(<<106, 107, 108>>), PyInt(1)>>,
       <<PyStr(<<109, 110, 111>>), PyInt(1)>> >>

\* Keys "a", "b", "c" and 1; values 1, 1.0 (equal to 1), 0.5, 9, "x" and "y".
DictKeyPool == {PyStr(<<97>>), PyStr(<<98>>), PyStr(<<99>>), PyInt(1)}

DictValuePool ==
    {PyInt(1), PyFloat(10), PyFloat(5), PyInt(9), PyStr(<<120>>), PyStr(<<121>>)}

\* The dicts of n items: n different keys in any order, any values
DictsOfLen(keys, values, n) ==
    {d \in [1..n -> keys \X values] :
        \A i, j \in 1..n : PyEq(d[i][1], d[j][1]) => i = j}

Dicts ==
    UNION {DictsOfLen(DictKeyPool, DictValuePool, n) : n \in 0..MaxDictLen}
    \cup {DocAnalyzeDict}

InitDict ==
    /\ self \in Dicts
    /\ points = <<>>
    /\ other_dict = <<>>
    /\ op = "none"
    /\ NoProcess
    /\ args = <<>>
    /\ ret = <<>>
    /\ hashseed = NoStrHashes

DoAnalyze ==
    /\ op = "none"
    /\ op' = "analyze"
    /\ args' = <<>>
    /\ ret' = analyze(self)
    /\ UNCHANGED <<self, points, hashseed, other_dict, process>>

DoSwapItems ==
    /\ op = "none"
    /\ op' = "swap_items"
    /\ args' = <<>>
    /\ ret' = Returned(swap_items(self))
    /\ UNCHANGED <<self, points, hashseed, other_dict, process>>

NextDict == DoAnalyze \/ DoSwapItems

SpecDict == InitDict /\ [][NextDict]_vars

-----------------------------------------------------------------------------
(* DictExt.aggregate                                                       *)

\* The result of an operator on two numbers whose value is `tenths`: an int
\* if both are int, a float otherwise
NumResult(x, y, tenths) ==
    IF x[1] = "int" /\ y[1] = "int" THEN PyInt(tenths \div 10)
    ELSE PyFloat(tenths)

\* operator_func(x, y) for operator.add, operator.sub and operator.floordiv:
\* + adds two numbers and joins two str, - and // take two numbers, // by
\* zero raises ZeroDivisionError, anything else raises TypeError.
operator_func(f, x, y) ==
    CASE f = "add" ->
            IF IsNumber(x) /\ IsNumber(y)
            THEN Returned(NumResult(x, y, NumOf(x) + NumOf(y)))
            ELSE IF x[1] = "str" /\ y[1] = "str" THEN Returned(PyStr(x[2] \o y[2]))
            ELSE Raised("TypeError")
      [] f = "sub" ->
            IF IsNumber(x) /\ IsNumber(y)
            THEN Returned(NumResult(x, y, NumOf(x) - NumOf(y)))
            ELSE Raised("TypeError")
      [] f = "floordiv" ->
            IF ~ (IsNumber(x) /\ IsNumber(y)) THEN Raised("TypeError")
            ELSE IF NumOf(y) = 0 THEN Raised("ZeroDivisionError")
            ELSE Returned(NumResult(x, y, 10 * (NumOf(x) \div NumOf(y))))

\* The keys of self only
aggregate_keys_of_self(a, b) == {a[i][1] : i \in 1..Len(a)}

\* all_keys = set(self) | set(other_dict)
aggregate_keys(a, b) ==
    {a[i][1] : i \in 1..Len(a)} \cup {b[i][1] : i \in 1..Len(b)}

\* The orders in which `for k in all_keys` may visit the keys: the order of a
\* set of str follows their hashes, which differ from run to run.
aggregate_key_orders(a, b) ==
    LET keys == aggregate_keys(a, b)
        n == Cardinality(keys)
    IN  {o \in [1..n -> keys] : \A i, j \in 1..n : o[i] = o[j] => i = j}

\* merged_output[k]: the try and its except TypeError; another error of
\* operator_func is not caught
aggregate_value(a, b, k, default_value, f) ==
    LET value_self == DictGet(a, k, default_value)
        value_other == DictGet(b, k, default_value)
        r == operator_func(f, value_self, value_other)
    IN  IF r[1] = "raise" /\ r[2] = "TypeError"
        THEN Returned(PyList(<<value_self, value_other>>))
        ELSE r

\* aggregate, its keys visited in the order `order`
aggregate(a, b, default_value, f, order) ==
    LET failed == {i \in 1..Len(order) :
                      aggregate_value(a, b, order[i], default_value, f)[1] = "raise"}
    IN  IF failed # {}
        THEN aggregate_value(a, b,
                             order[CHOOSE i \in failed : \A j \in failed : i <= j],
                             default_value, f)
        ELSE Returned([i \in 1..Len(order) |->
                          <<order[i],
                            aggregate_value(a, b, order[i], default_value, f)[2]>>])

\* {"test": 5, "test2": 9} and {"test1": 10, "test2": "1"}
DocAggregateSelf ==
    << <<PyStr(<<116, 101, 115, 116>>), PyInt(5)>>,
       <<PyStr(<<116, 101, 115, 116, 50>>), PyInt(9)>> >>

DocAggregateOther ==
    << <<PyStr(<<116, 101, 115, 116, 49>>), PyInt(10)>>,
       <<PyStr(<<116, 101, 115, 116, 50>>), PyStr(<<49>>)>> >>

\* The keys "a", "b", "c" and the values 1, 2 and "1" of the dicts aggregated.
AggregateKeyList == <<PyStr(<<97>>), PyStr(<<98>>), PyStr(<<99>>)>>

AggregateValues == {PyInt(1), PyInt(2), PyStr(<<49>>)}

\* The dict with the keys of AggregateKeyList at the places S, valued by g
AggregateDictOf(S, g) ==
    LET nth(n) == CHOOSE i \in S : Cardinality({j \in S : j <= i}) = n
    IN  [n \in 1..Cardinality(S) |-> <<AggregateKeyList[nth(n)], g[nth(n)]>>]

AggregateDicts ==
    UNION {{AggregateDictOf(S, g) : g \in [S -> AggregateValues]} :
              S \in {T \in SUBSET (1..Len(AggregateKeyList)) :
                        Cardinality(T) <= MaxAggregateLen}}

\* default_value: the default 0, another number, a str
DefaultValues == {PyInt(0), PyInt(3), PyStr(<<>>)}

OperatorFuncs == {"add", "sub", "floordiv"}

InitAggregate ==
    /\ \/ /\ self \in AggregateDicts
          /\ other_dict \in AggregateDicts
       \/ /\ self = DocAggregateSelf
          /\ other_dict = DocAggregateOther
    /\ points = <<>>
    /\ op = "none"
    /\ NoProcess
    /\ args = <<>>
    /\ ret = <<>>
    /\ hashseed = NoStrHashes

DoAggregate(default_value, f) ==
    /\ op = "none"
    /\ op' = "aggregate"
    /\ args' = <<other_dict, default_value, f>>
    /\ \E order \in aggregate_key_orders(self, other_dict) :
           ret' = aggregate(self, other_dict, default_value, f, order)
    /\ UNCHANGED <<self, points, hashseed, other_dict, process>>

NextAggregate ==
    \E default_value \in DefaultValues, f \in OperatorFuncs :
        DoAggregate(default_value, f)

SpecAggregate == InitAggregate /\ [][NextAggregate]_vars

-----------------------------------------------------------------------------
(* pick_one, get_random                                                    *)
(*                                                                         *)
(* random.choice(self) takes the item at an index the random source gives: *)
(* the index is an input of the call.                                      *)

DefaultNumberOfItems == 5   \* number_of_items: int = 5

\* pick_one that returns None on an empty list
pick_one_none(s, i) == IF Len(s) # 0 THEN Returned(s[i]) ELSE Returned(PyNone)

\* pick_one, random.choice picking the item at place i
pick_one(s, i) == IF Len(s) # 0 THEN Returned(s[i]) ELSE Raised("IndexError")

\* [self.pick_one() for _ in range(number_of_items)], the picks at the places
\* `choices`: the first pick that raises ends the call
get_random(s, number_of_items, choices) ==
    LET n == Max(number_of_items, 0)
        picks == [j \in 1..n |-> pick_one(s, choices[j])]
        failed == {j \in 1..n : picks[j][1] = "raise"}
    IN  IF failed # {} THEN picks[CHOOSE j \in failed : \A l \in failed : j <= l]
        ELSE Returned([j \in 1..n |-> picks[j][2]])

\* The places random.choice may give on s (one place, unused, if s is empty)
ChoicesOn(s) == 1..Max(Len(s), 1)

RandomElems == {PyInt(n) : n \in 1..MaxElem}

RandomLists == SeqsUpTo(RandomElems, MaxLen)

\* number_of_items: below 0, 0, some, and the default
RandomCounts == ((0 - 1)..MaxRandom) \cup {DefaultNumberOfItems}

InitRandom ==
    /\ self \in RandomLists
    /\ points = <<>>
    /\ other_dict = <<>>
    /\ op = "none"
    /\ NoProcess
    /\ args = <<>>
    /\ ret = <<>>
    /\ hashseed = NoStrHashes

\* The call on the list as built: neither method changes the list.
DoPickOne ==
    /\ op = "none"
    /\ op' = "pick_one"
    /\ args' = <<>>
    /\ \E i \in ChoicesOn(self) : ret' = pick_one(self, i)
    /\ UNCHANGED <<self, points, hashseed, other_dict, process>>

DoGetRandom(number_of_items) ==
    /\ op = "none"
    /\ op' = "get_random"
    /\ args' = <<number_of_items>>
    /\ \E choices \in [1..Max(number_of_items, 0) -> ChoicesOn(self)] :
           ret' = get_random(self, number_of_items, choices)
    /\ UNCHANGED <<self, points, hashseed, other_dict, process>>

NextRandom ==
    \/ DoPickOne
    \/ \E number_of_items \in RandomCounts : DoGetRandom(number_of_items)

SpecRandom == InitRandom /\ [][NextRandom]_vars

-----------------------------------------------------------------------------
(* numbering, len_items, mean_len, max_item_len, wrap_to_column            *)
(*                                                                         *)
(* A float that is the quotient of two ints is kept as the pair of them in *)
(* lowest terms, <<"float", numerator, denominator>>: two quotients of     *)
(* small ints are the same float exactly when they are the same fraction.  *)

RECURSIVE Gcd(_, _)
Gcd(a, b) == IF b = 0 THEN a ELSE Gcd(b, a % b)

\* a / b for two ints a >= 0 and b >= 0
TrueDiv(a, b) ==
    IF b = 0 THEN Raised("ZeroDivisionError")
    ELSE Returned(<<"float", a \div Gcd(a, b), b \div Gcd(a, b)>>)

\* 0.0
FloatZero == <<"float", 0, 1>>

\* numbering with start taken as given
numbering_unclamped(s, start) ==
    [i \in 1..Len(s) |-> PyTuple(<<PyInt(start + i - 1), s[i]>>)]

\* list(enumerate(self, start=max(start, 0)))
numbering(s, start) ==
    [i \in 1..Len(s) |-> PyTuple(<<PyInt(Max(start, 0) + i - 1), s[i]>>)]

\* _len: len(item), and len(str(item)) where len raises TypeError
len_items_len(item) ==
    IF item[1] \in {"str", "list", "tuple"} THEN Len(item[2])
    ELSE Len(StrOf(item))

len_items(s) == [i \in 1..Len(s) |-> PyInt(len_items_len(s[i]))]

\* mean_len with recursive ignored
mean_len_not_flattened(s, recursive) ==
    LET quotient == TrueDiv(SumOf(len_items(s)), Len(s))
    IN  IF quotient[1] = "raise" THEN Returned(FloatZero) ELSE quotient

mean_len(s, recursive) ==
    LET dat == IF recursive THEN flatten(s, TRUE) ELSE s
        quotient == TrueDiv(SumOf(len_items(dat)), Len(dat))
    IN  IF quotient[1] = "raise" THEN Returned(FloatZero) ELSE quotient

\* max(self.len_items()), recursive left at False
max_item_len(s) ==
    IF s = <<>> THEN Raised("ValueError")
    ELSE Returned(CHOOSE m \in {len_items(s)[i][2] : i \in 1..Len(s)} :
                      \A i \in 1..Len(s) : len_items(s)[i][2] <= m)

\* ljust that adds nothing
ljust_none(x, width) == x

\* x.ljust(width, " "); " " is code point 32.
ljust(x, width) == x \o [i \in 1..(width - Len(x)) |-> 32]

\* mod_item: the items of a chunk, each filled up to max_item_length, joined
wrap_mod_item(item, max_item_length) ==
    PyStr(Concat([i \in 1..Len(item) |-> ljust(item[i][2], max_item_length)]))

\* column_count
wrap_column_count(width, margin, max_item_length) ==
    LET available_width == Max(width, 4) - Max(margin, 2)
    IN  IF max_item_length > 0
        THEN Max(1, available_width \div max_item_length)
        ELSE 1

wrap_to_column(s, width, margin) ==
    IF max_item_len(s)[1] = "raise" THEN max_item_len(s)
    ELSE LET max_item_length == max_item_len(s)[2] + 1
             column_count == wrap_column_count(width, margin, max_item_length)
             chunks == split_chunk(s, column_count)
         IN  Returned([i \in 1..Len(chunks) |->
                          wrap_mod_item(chunks[i], max_item_length)])

MaxTextLen == 3    \* longest list of str, the documented one apart
MaxItemLen == 2    \* longest str of such a list, the documented ones apart
MaxWidth == 8      \* largest width passed to wrap_to_column, 15 and 30 apart
MaxMargin == 4     \* largest margin passed to wrap_to_column
MaxStart == 2      \* largest start passed to numbering

\* "apple", "banana", "cherry", "date"
DocWrapList ==
    << PyStr(<<97, 112, 112, 108, 101>>),
       PyStr(<<98, 97, 110, 97, 110, 97>>),
       PyStr(<<99, 104, 101, 114, 114, 121>>),
       PyStr(<<100, 97, 116, 101>>) >>

\* "", "a", "b", "aa", "bb", ...
TextItems ==
    {PyStr([i \in 1..k |-> c]) : k \in 0..MaxItemLen, c \in {97, 98}}

TextLists == SeqsUpTo(TextItems, MaxTextLen) \cup {DocWrapList}

TextCounts == (0 - 2)..(MaxTextLen + 2)

TextStarts == (0 - 2)..MaxStart

TextWidths == (0 - 1)..MaxWidth \cup {15, 30}

TextMargins == (0 - 1)..MaxMargin

InitText ==
    /\ self \in TextLists
    /\ points = <<>>
    /\ other_dict = <<>>
    /\ op = "none"
    /\ NoProcess
    /\ args = <<>>
    /\ ret = <<>>
    /\ hashseed = NoStrHashes

\* The calls on the list as built: none of the methods changes the list.
DoTextHead(number_of_items) ==
    /\ op = "none"
    /\ op' = "head"
    /\ args' = <<number_of_items>>
    /\ ret' = Returned(head(self, number_of_items))
    /\ UNCHANGED <<self, points, hashseed, other_dict, process>>

DoTextTail(number_of_items) ==
    /\ op = "none"
    /\ op' = "tail"
    /\ args' = <<number_of_items>>
    /\ ret' = Returned(tail(self, number_of_items))
    /\ UNCHANGED <<self, points, hashseed, other_dict, process>>

DoNumbering(start) ==
    /\ op = "none"
    /\ op' = "numbering"
    /\ args' = <<start>>
    /\ ret' = Returned(numbering(self, start))
    /\ UNCHANGED <<self, points, hashseed, other_dict, process>>

DoTextSplitChunk(chunk_size) ==
    /\ op = "none"
    /\ op' = "split_chunk"
    /\ args' = <<chunk_size>>
    /\ ret' = Returned(split_chunk(self, chunk_size))
    /\ UNCHANGED <<self, points, hashseed, other_dict, process>>

DoWrapToColumn(width, margin) ==
    /\ op = "none"
    /\ op' = "wrap_to_column"
    /\ args' = <<width, margin>>
    /\ ret' = wrap_to_column(self, width, margin)
    /\ UNCHANGED <<self, points, hashseed, other_dict, process>>

NextText ==
    \/ \E number_of_items \in TextCounts : DoTextHead(number_of_items)
    \/ \E number_of_items \in TextCounts : DoTextTail(number_of_items)
    \/ \E start \in TextStarts : DoNumbering(start)
    \/ \E chunk_size \in TextCounts : DoTextSplitChunk(chunk_size)
    \/ \E width \in TextWidths, margin \in TextMargins :
           DoWrapToColumn(width, margin)

SpecText == InitText /\ [][NextText]_vars

\* The elements mean_len is called on: those of a nested list, a float and
\* None besides.
InitMeanLen ==
    /\ self \in NestedLists
              \cup {<<x>> \o s : x \in {PyFloat(125), PyNone, PyInt(10)},
                                 s \in SeqsUpTo(FlatAtoms, 1)}
    /\ points = <<>>
    /\ other_dict = <<>>
    /\ op = "none"
    /\ NoProcess
    /\ args = <<>>
    /\ ret = <<>>
    /\ hashseed = NoStrHashes

DoMeanLen(recursive) ==
    /\ op = "none"
    /\ op' = "mean_len"
    /\ args' = <<recursive>>
    /\ ret' = mean_len(self, recursive)
    /\ UNCHANGED <<self, points, hashseed, other_dict, process>>

NextMeanLen == \E recursive \in BOOLEAN : DoMeanLen(recursive)

SpecMeanLen == InitMeanLen /\ [][NextMeanLen]_vars

-----------------------------------------------------------------------------
(* absfuyu.util.performance.retry                                          *)
(*                                                                         *)
(* retry(retries, delay) checks its arguments and gives a decorator; the   *)
(* wrapper it makes of f runs f in a loop over i = 1 .. retries.  What f   *)
(* does when run is not the wrapper's: every invocation returns a value or *)
(* raises.  locals is <<i>>; trace holds <<"f", outcome>> for an           *)
(* invocation of f and <<"sleep", delay>> for a time.sleep(delay).         *)

MaxRetries == 3   \* largest retries passed to retry
MaxDelay == 2     \* largest delay passed to retry, in seconds

\* The classes caught by "except Exception"
ExceptionClasses == {"Exception", "ValueError"}

\* What an invocation of f may do: return None or a value, raise an Exception,
\* or raise what is only a BaseException.
FOutcomes ==
    {Returned(PyNone), Returned(PyInt(1))}
    \cup {Raised(e) : e \in ExceptionClasses \cup {"KeyboardInterrupt"}}

RetriesArgs == 0..MaxRetries

DelayArgs == 0..MaxDelay

\* the break one attempt late
retry_exhausted_late(i, retries) == i = retries + 1

\* if i == retries
retry_exhausted(i, retries) == i = retries

InitRetry ==
    /\ self = <<>>
    /\ points = <<>>
    /\ other_dict = <<>>
    /\ op = "none"
    /\ NoProcess
    /\ args = <<>>
    /\ ret = <<>>
    /\ hashseed = NoStrHashes

\* retry(retries, delay): the check of the arguments
Decorate(retries, delay) ==
    /\ pc = "none"
    /\ op' = "retry"
    /\ args' = <<retries, delay>>
    /\ IF retries < 1 \/ delay <= 0
       THEN pc' = "rejected" /\ ret' = Raised("ValueError")
       ELSE pc' = "decorated" /\ ret' = <<>>
    /\ UNCHANGED <<self, points, hashseed, other_dict, locals, trace, cache>>

\* A call of the wrapper: the loop starts at i = 1.
CallWrapper ==
    /\ pc \in {"decorated", "done"}
    /\ pc' = "try"
    /\ op' = "wrapper"
    /\ locals' = <<1>>
    /\ trace' = <<>>
    /\ ret' = <<>>
    /\ UNCHANGED <<self, points, args, hashseed, other_dict, cache>>

\* return f(*args, **kwargs), and the except clause when f raises
Invoke(outcome) ==
    /\ pc = "try"
    /\ trace' = Append(trace, <<"f", outcome>>)
    /\ IF outcome[1] = "return" \/ outcome[2] \notin ExceptionClasses
       THEN pc' = "done" /\ ret' = outcome
       ELSE IF retry_exhausted(locals[1], args[1])
       THEN pc' = "done" /\ ret' = Returned(PyNone)
       ELSE pc' = "sleep" /\ ret' = ret
    /\ UNCHANGED <<self, points, op, args, hashseed, other_dict, locals, cache>>

\* time.sleep(delay), then the next i of range(1, retries + 1) if there is one
Sleep ==
    /\ pc = "sleep"
    /\ trace' = Append(trace, <<"sleep", PyInt(args[2])>>)
    /\ IF locals[1] + 1 <= args[1]
       THEN pc' = "try" /\ locals' = <<locals[1] + 1>> /\ ret' = ret
       ELSE pc' = "done" /\ locals' = locals /\ ret' = Returned(PyNone)
    /\ UNCHANGED <<self, points, op, args, hashseed, other_dict, cache>>

NextRetry ==
    \/ \E retries \in RetriesArgs, delay \in DelayArgs : Decorate(retries, delay)
    \/ CallWrapper
    \/ \E outcome \in FOutcomes : Invoke(outcome)
    \/ Sleep

SpecRetry == InitRetry /\ [][NextRetry]_vars

-----------------------------------------------------------------------------
(* absfuyu.util.api.APIRequest.fetch_data                                  *)
(*                                                                         *)
(* cache is the file at json_cache: <<"file", text>> with the characters   *)
(* of the file, <<"missing", <<>> >> where no file is at the path, and     *)
(* <<"nodir", <<>> >> where the directory of the path does not exist, so   *)
(* that no file can be made there.  What the server at self.url answers is *)
(* not the program's: every request gives some JSON document or fails.     *)
(* locals is <<update, json_data>>; trace holds, for all calls so far,     *)
(* <<"call", update>>, <<"read", outcome>>, <<"request", outcome>>,        *)
(* <<"write", outcome>> and <<"end", outcome>> in the order they happened. *)

MaxFetches == 3   \* calls of fetch_data followed
MaxJsonInt == 2   \* the ints in a JSON document are 1..MaxJsonInt

\* Python's bool
PyBool(b) == <<"bool", b>>

\* The documents parsed: null, 1, 2, ..., "a"
JsonValues ==
    {PyNone, PyStr(<<97>>)} \cup {PyInt(n) : n \in 1..MaxJsonInt}

\* json.dump(obj, file, indent=2): null, the digits of an int, a str between
\* double quotes (code point 34); "null" is 110, 117, 108, 108.
json_dump(obj) ==
    CASE obj[1] = "NoneType" -> <<110, 117, 108, 108>>
      [] obj[1] = "int" -> StrOf(obj)
      [] obj[1] = "str" -> <<34>> \o obj[2] \o <<34>>

\* The int written with the digits ds
RECURSIVE IntOfDigits(_)
IntOfDigits(ds) ==
    IF ds = <<>> THEN 0
    ELSE 10 * IntOfDigits(SubSeq(ds, 1, Len(ds) - 1)) + (ds[Len(ds)] - 48)

\* json.load(file): the document of the text, JSONDecodeError for a text
\* that is none ("\" is code point 92).
json_load(text) ==
    IF text = <<110, 117, 108, 108>> THEN Returned(PyNone)
    ELSE IF /\ text # <<>>
            /\ \A k \in 1..Len(text) : text[k] \in 48..57
            /\ (Len(text) > 1 => text[1] # 48)
    THEN Returned(PyInt(IntOfDigits(text)))
    ELSE IF /\ Len(text) >= 2
            /\ text[1] = 34
            /\ text[Len(text)] = 34
            /\ \A k \in 2..(Len(text) - 1) : text[k] \notin {34, 92} \cup 0..31
    THEN Returned(PyStr(SubSeq(text, 2, Len(text) - 1)))
    ELSE Raised("JSONDecodeError")

NoFile == <<"missing", <<>> >>

NoDirectory == <<"nodir", <<>> >>

FileOf(text) == <<"file", text>>

\* with open(json_cache, "r") as file: json.load(file)
fetch_read(file) ==
    IF file[1] = "file" THEN json_load(file[2]) ELSE Raised("FileNotFoundError")

\* the cache never written
fetch_write_skipped(file, json_data) == file

\* with open(json_cache, "w") as file: json.dump(json_data, file, indent=2);
\* the file after it
fetch_write(file, json_data) ==
    IF file = NoDirectory THEN file ELSE FileOf(json_dump(json_data))

\* The files found at json_cache before the first call: none, one that is
\* empty, one that holds "{", one that holds some document.
CacheFiles ==
    {NoDirectory, NoFile, FileOf(<<>>), FileOf(<<123>>)}
    \cup {FileOf(json_dump(v)) : v \in JsonValues}

\* What requests.get(self.url).json() may give
Responses == {Returned(v) : v \in JsonValues} \cup {Raised("ConnectionError")}

\* The calls of fetch_data made so far
FetchesMade == Cardinality({k \in 1..Len(trace) : trace[k][1] = "call"})

InitFetch ==
    /\ self = <<>>
    /\ points = <<>>
    /\ other_dict = <<>>
    /\ op = "none"
    /\ pc = "none"
    /\ locals = <<>>
    /\ trace = <<>>
    /\ cache \in CacheFiles
    /\ args = <<>>
    /\ ret = <<>>
    /\ hashseed = NoStrHashes

\* fetch_data(update=update, json_cache=...): if update: json_data = None
FetchData(update) ==
    /\ pc \in {"none", "done"}
    /\ FetchesMade < MaxFetches
    /\ op' = "fetch_data"
    /\ args' = <<update>>
    /\ locals' = <<update, PyNone>>
    /\ trace' = Append(trace, <<"call", PyBool(update)>>)
    /\ pc' = IF update THEN "request" ELSE "read"
    /\ UNCHANGED <<self, points, ret, hashseed, other_dict, cache>>

\* The first try: the cache read, json_data None where that fails
ReadCache ==
    /\ pc = "read"
    /\ LET outcome == fetch_read(cache)
           json_data == IF outcome[1] = "return" THEN outcome[2] ELSE PyNone
       IN  /\ trace' = Append(trace, <<"read", outcome>>)
           /\ locals' = <<locals[1], json_data>>
           /\ pc' = IF json_data = PyNone THEN "request" ELSE "return"
    /\ UNCHANGED <<self, points, op, args, ret, hashseed, other_dict, cache>>

\* json_data = requests.get(self.url).json(); what it raises leaves fetch_data
Request(response) ==
    /\ pc = "request"
    /\ IF response[1] = "return"
       THEN /\ trace' = Append(trace, <<"request", response>>)
            /\ locals' = <<locals[1], response[2]>>
            /\ pc' = "write"
            /\ UNCHANGED ret
       ELSE /\ trace' = trace \o << <<"request", response>>, <<"end", response>> >>
            /\ ret' = response
            /\ pc' = "done"
            /\ UNCHANGED locals
    /\ UNCHANGED <<self, points, op, args, hashseed, other_dict, cache>>

\* The cache written; FileNotFoundError is logged and nothing more
WriteCache ==
    /\ pc = "write"
    /\ cache' = fetch_write(cache, locals[2])
    /\ trace' = Append(trace,
                       <<"write", IF cache = NoDirectory
                                  THEN Raised("FileNotFoundError")
                                  ELSE Returned(PyNone)>>)
    /\ pc' = "return"
    /\ UNCHANGED <<self, points, op, args, ret, hashseed, other_dict, locals>>

\* return json_data
ReturnData ==
    /\ pc = "return"
    /\ ret' = Returned(locals[2])
    /\ trace' = Append(trace, <<"end", Returned(locals[2])>>)
    /\ pc' = "done"
    /\ UNCHANGED <<self, points, op, args, hashseed, other_dict, locals, cache>>

NextFetch ==
    \/ \E update \in BOOLEAN : FetchData(update)
    \/ ReadCache
    \/ \E response \in Responses : Request(response)
    \/ WriteCache
    \/ ReturnData

SpecFetch == InitFetch /\ [][NextFetch]_vars

(***************************************************************************)
(* Claims on freq (SpecFreq).                                              *)
(***************************************************************************)

\* The number of items of s equal to x
Occurrences(s, x) == Cardinality({i \in 1..Len(s) : PyEq(s[i], x)})

\* The number of distinct items of s
DistinctCount(s) ==
    Cardinality({i \in 1..Len(s) : \A j \in 1..(i - 1) : ~ PyEq(s[j], s[i])})

\* d maps exactly the distinct items of s, each to the number of its occurrences
IsCountOf(d, s) ==
    /\ \A i \in 1..Len(s) : \E k \in 1..Len(d) : PyEq(d[k][1], s[i])
    /\ \A k \in 1..Len(d) : d[k][2] = PyInt(Occurrences(s, d[k][1]))
    /\ \A k, l \in 1..Len(d) : PyEq(d[k][1], d[l][1]) => k = l
    /\ Len(d) = DistinctCount(s)

\* The two dicts are equal: the same keys with the same values, in any order
SameDict(d, e) ==
    /\ Len(d) = Len(e)
    /\ \A k \in 1..Len(d) : \E l \in 1..Len(e) :
           PyEq(d[k][1], e[l][1]) /\ d[k][2] = e[l][2]

\* C11: freq() with no argument returns a mapping whose keys are exactly the
\* distinct elements of the list, each with the number of its occurrences, so
\* the values sum to len(self); [1,1,2,3,5,5] gives {1:2, 2:1, 3:1, 5:2}.
C11_FreqCounts ==
    (op = "freq" /\ args = <<FALSE, PyNone, FALSE>>) =>
        /\ ret[1] = "return"
        /\ IsCountOf(ret[2], self)
        /\ SumOf(ValuesOfDict(ret[2])) = Len(self)
        /\ self = DocFreqList =>
               SameDict(ret[2], << <<PyInt(1), PyInt(2)>>, <<PyInt(2), PyInt(1)>>,
                                   <<PyInt(3), PyInt(1)>>, <<PyInt(5), PyInt(2)>> >>)

\* A list with 2 and 2.0, which are one key, and with a str.
C11_Witness ==
    /\ op = "freq"
    /\ args = <<FALSE, PyNone, FALSE>>
    /\ \E i, j \in 1..Len(self) : self[i] # self[j] /\ PyEq(self[i], self[j])
    /\ \E i \in 1..Len(self) : IsStr(self[i])
    /\ Len(ret[2]) = 2

\* C12 as stated: the keys of the mapping freq returns are in ascending order
\* when sort=True and the keys are comparable; in the order ListExt(keys).sorts()
\* gives when sort=True and they are not; and in the order of first occurrence
\* when sort=False.
C12_FreqKeyOrder ==
    (op = "freq" /\ args[2] = PyNone /\ ~ args[3]) =>
        /\ ret[1] = "return"
        /\ LET keys == KeysOf(ret[2])
               comparable == \A i, j \in 1..Len(keys) : Comparable(keys[i], keys[j])
           IN  /\ (args[1] /\ comparable) =>
                      \A i, j \in 1..Len(keys) : i < j => PyLess(keys[i], keys[j])
               /\ (args[1] /\ ~ comparable) =>
                      keys = sorts(KeysOf(Counter(self)), FALSE)
               /\ ~ args[1] => keys = KeysOf(Counter(self))

\* C13 as stated: freq(num_of_first_char=c) counts the first c characters of
\* the str() of each element when 1 <= c < m, m the shortest str() among the
\* elements; for any other c, and for the empty list, it returns what freq
\* returns without the argument, and never raises.
C13_FreqFirstChar ==
    (op = "freq" /\ args[2] # PyNone) =>
        /\ ret[1] = "return"
        /\ IF self # <<>> /\ args[2][2] \in 1..(freq_max_char(self) - 1)
           THEN freq([i \in 1..Len(self) |-> StrPrefix(self[i], args[2][2])],
                     args[1], PyNone, args[3]) = ret
           ELSE freq(self, args[1], PyNone, args[3]) = ret

\* C14: freq(appear_increment=True) returns the running sums of the counts in
\* the key order of the frequency mapping: one entry per distinct element,
\* strictly increasing, the last one len(self); [1,1,2,3,3,4,5,6] gives
\* [2,3,5,6,7,8].
C14_FreqIncrement ==
    (op = "freq" /\ args[2] = PyNone /\ args[3]) =>
        /\ ret[1] = "return"
        /\ Len(ret[2]) = DistinctCount(self)
        /\ \A i \in 1..Len(ret[2]) :
               /\ ret[2][i][1] = "int"
               /\ ret[2][i][2] > (IF i = 1 THEN 0 ELSE ret[2][i - 1][2])
               /\ ret[2][i][2] =
                      SumOf(SubSeq(ValuesOfDict(freq(self, args[1], PyNone, FALSE)[2]),
                                   1, i))
        /\ self # <<>> => ret[2][Len(ret[2])] = PyInt(Len(self))
        /\ (self = DocFreqIncrementList /\ ~ args[1]) =>
               ret[2] = IntList(<<2, 3, 5, 6, 7, 8>>)

\* A list of numbers and str with an element repeated.
C14_Witness ==
    /\ op = "freq"
    /\ args = <<FALSE, PyNone, TRUE>>
    /\ \E i \in 1..Len(self) : IsStr(self[i])
    /\ \E i \in 1..Len(self) : IsNumber(self[i])
    /\ Len(ret[2]) = 2
    /\ ret[2][2] = PyInt(3)

(***************************************************************************)
(* Claims on analyze and swap_items (SpecDict).                            *)
(***************************************************************************)

\* lst holds exactly the items of dct whose value equals val, as tuples
\* (key, value), in the order of dct
IsItemsWithValue(lst, dct, val) ==
    /\ \A n \in 1..Len(lst) : \E i \in 1..Len(dct) :
           /\ lst[n] = PyTuple(<<dct[i][1], dct[i][2]>>)
           /\ PyEq(dct[i][2], val)
    /\ \A i \in 1..Len(dct) : PyEq(dct[i][2], val) =>
           \E n \in 1..Len(lst) : lst[n] = PyTuple(<<dct[i][1], dct[i][2]>>)
    /\ \A n, m \in 1..Len(lst) : n < m =>
           DictIndex(dct, lst[n][2][1]) < DictIndex(dct, lst[m][2][1])

\* C15: on a DictExt that is not empty and whose values are numbers, analyze()
\* returns the greatest and the least value and, for each, the list of every
\* item (key, value) with that value, in the order of the mapping, ties kept;
\* with all values equal both lists hold every item; the documented dict
\* gives (9, 1, [("abc", 9), ("def", 9)], [("jkl", 1), ("mno", 1)]).
C15_Analyze ==
    (/\ op = "analyze"
     /\ self # <<>>
     /\ \A i \in 1..Len(self) : IsNumber(self[i][2])) =>
        /\ ret[1] = "return"
        /\ Len(ret[2]) = 4
        /\ \E i \in 1..Len(self) : PyEq(self[i][2], ret[2][1])
        /\ \A i \in 1..Len(self) : ~ PyLess(ret[2][1], self[i][2])
        /\ \E i \in 1..Len(self) : PyEq(self[i][2], ret[2][2])
        /\ \A i \in 1..Len(self) : ~ PyLess(self[i][2], ret[2][2])
        /\ IsItemsWithValue(ret[2][3], self, ret[2][1])
        /\ IsItemsWithValue(ret[2][4], self, ret[2][2])
        /\ (\A i, j \in 1..Len(self) : PyEq(self[i][2], self[j][2])) =>
               /\ Len(ret[2][3]) = Len(self)
               /\ Len(ret[2][4]) = Len(self)
        /\ self = DocAnalyzeDict =>
               ret[2] = <<PyInt(9), PyInt(1),
                          <<PyTuple(<<PyStr(<<97, 98, 99>>), PyInt(9)>>),
                            PyTuple(<<PyStr(<<100, 101, 102>>), PyInt(9)>>)>>,
                          <<PyTuple(<<PyStr(<<106, 107, 108>>), PyInt(1)>>),
                            PyTuple(<<PyStr(<<109, 110, 111>>), PyInt(1)>>)>> >>

\* Three items, the greatest value held twice, as 1 and as 1.0.
C15_Witness ==
    /\ op = "analyze"
    /\ Len(self) = 3
    /\ \A i \in 1..Len(self) : IsNumber(self[i][2])
    /\ ret[1] = "return"
    /\ Len(ret[2][3]) = 2
    /\ Len(ret[2][4]) = 1
    /\ ret[2][3][1][2][2] # ret[2][3][2][2][2]

\* C16 as stated: analyze() fails with ValueError whenever at least one value
\* of the mapping is not a number, a mapping of str values only included, and
\* leaves the mapping as it was.
C16_AnalyzeRejects ==
    [][(/\ op' = "analyze"
        /\ \E i \in 1..Len(self) : ~ IsNumber(self[i][2])) =>
           /\ ret'[1] = "raise"
           /\ ret'[2] = "ValueError"
           /\ self' = self]_vars

\* The place of the last item of dct whose value equals val
LastWithValue(dct, val) ==
    CHOOSE i \in 1..Len(dct) :
        /\ PyEq(dct[i][2], val)
        /\ \A j \in (i + 1)..Len(dct) : ~ PyEq(dct[j][2], val)

\* r is dct with keys and values swapped, the last key of a value kept
IsSwapOf(r, dct) ==
    /\ \A i \in 1..Len(dct) : \E k \in 1..Len(r) : PyEq(r[k][1], dct[i][2])
    /\ \A k \in 1..Len(r) : \E i \in 1..Len(dct) : PyEq(r[k][1], dct[i][2])
    /\ \A k, l \in 1..Len(r) : PyEq(r[k][1], r[l][1]) => k = l
    /\ \A k \in 1..Len(r) : r[k][2] = dct[LastWithValue(dct, r[k][1])][1]

\* C19: swap_items() returns a new mapping whose keys are the values of the
\* original, each mapped to the last original key, in iteration order, that has
\* this value; the original is left as it was; when the original values are
\* pairwise distinct, swapping the result again gives the original.
C19_SwapItems ==
    [][op' = "swap_items" =>
           /\ self' = self
           /\ ret'[1] = "return"
           /\ IsSwapOf(ret'[2], self)
           /\ (\A i, j \in 1..Len(self) : PyEq(self[i][2], self[j][2]) => i = j) =>
                  swap_items(ret'[2]) = self]_vars

\* Two keys with the values 1 and 1.0, which are one key of the result.
C19_Witness ==
    /\ op = "swap_items"
    /\ Len(self) = 3
    /\ \E i, j \in 1..Len(self) :
           /\ i < j
           /\ self[i][2] # self[j][2]
           /\ PyEq(self[i][2], self[j][2])
           /\ \E k \in 1..Len(ret[2]) :
                  ret[2][k][1] = self[i][2] /\ ret[2][k][2] = self[j][1]
    /\ Len(ret[2]) = 2

(***************************************************************************)
(* Claims on aggregate (SpecAggregate).                                    *)
(***************************************************************************)

\* The keys of the dict d, as a set
KeySet(d) == {d[i][1] : i \in 1..Len(d)}

\* f(a.get(k, d), b.get(k, d)): what it returns or raises
OperatorAt(a, b, k, d, f) == operator_func(f, DictGet(a, k, d), DictGet(b, k, d))

\* r has the keys of a and of b, each once, and at each key k the value
\* f(a.get(k, d), b.get(k, d)), or the list [a.get(k, d), b.get(k, d)] where f
\* raises TypeError
IsAggregateOf(r, a, b, d, f) ==
    /\ KeySet(r) = KeySet(a) \cup KeySet(b)
    /\ Len(r) = Cardinality(KeySet(r))
    /\ \A i \in 1..Len(r) :
           LET k == r[i][1]
           IN  /\ OperatorAt(a, b, k, d, f)[1] = "return" =>
                      r[i][2] = OperatorAt(a, b, k, d, f)[2]
               /\ OperatorAt(a, b, k, d, f) = Raised("TypeError") =>
                      r[i][2] = PyList(<<DictGet(a, k, d), DictGet(b, k, d)>>)

\* The documented result {"test1": 10, "test": 5, "test2": [9, "1"]}
DocAggregateResult ==
    << <<PyStr(<<116, 101, 115, 116, 49>>), PyInt(10)>>,
       <<PyStr(<<116, 101, 115, 116>>), PyInt(5)>>,
       <<PyStr(<<116, 101, 115, 116, 50>>), PyList(<<PyInt(9), PyStr(<<49>>)>>)>> >>

\* The call made is the documented one
IsDocAggregate ==
    /\ self = DocAggregateSelf
    /\ other_dict = DocAggregateOther
    /\ args[2] = PyInt(0)
    /\ args[3] = "add"

RaisesOtherError(a, b, d, f) ==
    \E k \in KeySet(a) \cup KeySet(b) :
        /\ OperatorAt(a, b, k, d, f)[1] = "raise"
        /\ OperatorAt(a, b, k, d, f)[2] # "TypeError"

C18_AggregateSingleKey ==
    (op = "aggregate" /\ ret[1] = "return") =>
        \A i \in 1..Len(ret[2]) :
            LET k == ret[2][i][1]
            IN  /\ k \in KeySet(self) \ KeySet(other_dict) =>
                       ret[2][i][2] = DictGet(self, k, PyNone)
                /\ k \in KeySet(other_dict) \ KeySet(self) =>
                       ret[2][i][2] = DictGet(other_dict, k, PyNone)

(***************************************************************************)
(* Claims on pick_one and get_random (SpecRandom).                         *)
(***************************************************************************)

\* pick_one() raises IndexError on an empty list and returns an element of a
\* list that is not empty
PickOneAsClaimed ==
    op = "pick_one" =>
        IF self = <<>> THEN ret[1] = "raise" /\ ret[2] = "IndexError"
        ELSE ret[1] = "return" /\ ret[2] \in AsSet(self)

\* C20 as stated: pick_one() as above; get_random(n) returns, on a list that is
\* not empty, a list of exactly n elements of the list, and fails with
\* IndexError on an empty list.
C20_RandomAnyCount ==
    /\ PickOneAsClaimed
    /\ (op = "get_random" /\ args[1] >= 0) =>
           IF self = <<>> THEN ret[1] = "raise" /\ ret[2] = "IndexError"
           ELSE /\ ret[1] = "return"
                /\ Len(ret[2]) = args[1]
                /\ AsSet(ret[2]) \subseteq AsSet(self)

\* C20: pick_one() as above; get_random(n) makes max(n, 0) calls of pick_one:
\* for n >= 1 it returns, on a list that is not empty, a list of exactly n
\* elements of the list (repeats allowed) and fails with IndexError on an
\* empty list; for n <= 0 it returns the empty list, on an empty list too.
C20_Random ==
    /\ PickOneAsClaimed
    /\ op = "get_random" =>
           IF args[1] <= 0 THEN ret[1] = "return" /\ ret[2] = <<>>
           ELSE IF self = <<>> THEN ret[1] = "raise" /\ ret[2] = "IndexError"
           ELSE /\ ret[1] = "return"
                /\ Len(ret[2]) = args[1]
                /\ AsSet(ret[2]) \subseteq AsSet(self)

\* Two picks from a list of two different elements that gave the same one.
C20_Witness ==
    /\ op = "get_random"
    /\ args = <<2>>
    /\ Cardinality(AsSet(self)) = 2
    /\ ret[1] = "return"
    /\ Len(ret[2]) = 2
    /\ ret[2][1] = ret[2][2]

(***************************************************************************)
(* Claims on numbering, mean_len and wrap_to_column (SpecText,             *)
(* SpecMeanLen).                                                           *)
(***************************************************************************)

\* What a call returns when its argument is first put into the documented
\* range: head and tail into 0..len, start to 0 or more, chunk_size to 1 or
\* more, width to 4 or more and margin to 2 or more.
ClampedCall ==
    CASE op = "head" ->
            Returned(SubSeq(self, 1, Min(Max(args[1], 0), Len(self))))
      [] op = "tail" ->
            Returned(SubSeq(self,
                            Len(self) - Min(Max(args[1], 0), Len(self)) + 1,
                            Len(self)))
      [] op = "numbering" ->
            Returned(numbering_unclamped(self, Max(args[1], 0)))
      [] op = "split_chunk" ->
            Returned(split_chunk(self, Max(args[1], 1)))
      [] op = "wrap_to_column" ->
            wrap_to_column(self, Max(args[1], 4), Max(args[2], 2))

\* C21 as stated: on every list of str and for every int argument, head,
\* tail, numbering, split_chunk and wrap_to_column return without raising,
\* and return what they return for the argument put into its range.
C21_ClampedNeverRaise ==
    (op # "none") => (ret[1] = "return" /\ ret = ClampedCall)

\* What holds of the five methods: the same on every list on which
\* wrap_to_column is not called empty.
C21_ClampedOnNonEmpty ==
    (op # "none" /\ ~ (op = "wrap_to_column" /\ self = <<>>)) =>
        (ret[1] = "return" /\ ret = ClampedCall)

\* wrap_to_column on the empty list raises ValueError.
C21_EmptyWrapRaises ==
    (op = "wrap_to_column" /\ self = <<>>) => ret = Raised("ValueError")

\* The length of an element: its own where it has one (a str, a list, a
\* tuple), that of its str() otherwise.
LengthOf(x) ==
    IF x[1] \in {"str", "list", "tuple"} THEN Len(x[2]) ELSE Len(StrOf(x))

RECURSIVE TotalLength(_)
TotalLength(s) ==
    IF s = <<>> THEN 0 ELSE LengthOf(Head(s)) + TotalLength(Tail(s))

\* C22: mean_len returns the sum of the lengths of the elements divided by
\* their number, the elements being the leaves when recursive=True, and the
\* length of an element without one being that of its str(); with no element
\* to measure, at once or after flattening, it returns 0.0 and does not raise.
C22_MeanLen ==
    (op = "mean_len") =>
        LET dat == IF args[1] THEN Leaves(self) ELSE self
        IN  /\ ret[1] = "return"
            /\ ret[2][1] = "float"
            /\ ret[2][3] > 0
            /\ IF dat = <<>> THEN ret[2] = FloatZero
               ELSE ret[2][2] * Len(dat) = TotalLength(dat) * ret[2][3]

\* [[1, "ab"]].mean_len(recursive=True) is 1.5: a nested list, an int among
\* its leaves.
C22_Witness ==
    /\ op = "mean_len"
    /\ args = <<TRUE>>
    /\ \E i \in 1..Len(self) : IsNested(self[i])
    /\ \E i \in 1..Len(Leaves(self)) : Leaves(self)[i][1] = "int"
    /\ ret = Returned(<<"float", 3, 2>>)

\* mean_len of a list with nothing to measure is 0.0.
C22_WitnessEmpty ==
    /\ op = "mean_len"
    /\ args = <<TRUE>>
    /\ self # <<>>
    /\ Leaves(self) = <<>>
    /\ ret = Returned(FloatZero)

\* The longest item length of a list of str
LongestItem(s) ==
    CHOOSE m \in {Len(s[i][2]) : i \in 1..Len(s)} :
        \A i \in 1..Len(s) : Len(s[i][2]) <= m

\* The columns C23 gives: max(1, floor((max(width,4) - max(margin,2)) / (L+1)))
ClaimedColumns(s, width, margin) ==
    Max(1, (Max(width, 4) - Max(margin, 2)) \div (LongestItem(s) + 1))

\* item followed by spaces up to exactly n characters
PaddedTo(item, n) ==
    [k \in 1..n |-> IF k <= Len(item) THEN item[k] ELSE 32]

\* "apple  banana cherry ", "date   "
DocWrapped30 ==
    << PyStr(<<97, 112, 112, 108, 101, 32, 32, 98, 97, 110, 97, 110, 97, 32,
               99, 104, 101, 114, 114, 121, 32>>),
       PyStr(<<100, 97, 116, 101, 32, 32, 32>>) >>

\* "apple  ", "banana ", "cherry ", "date   "
DocWrapped15 ==
    << PyStr(<<97, 112, 112, 108, 101, 32, 32>>),
       PyStr(<<98, 97, 110, 97, 110, 97, 32>>),
       PyStr(<<99, 104, 101, 114, 114, 121, 32>>),
       PyStr(<<100, 97, 116, 101, 32, 32, 32>>) >>

\* C23: on a non-empty list of str with longest item length L,
\* wrap_to_column(width, margin) returns ceil(len/c) rows for
\* c = max(1, floor((max(width,4) - max(margin,2)) / (L+1))); row r is the
\* items (r-1)*c+1 .. min(r*c, len) in order, each filled with spaces to
\* exactly L+1 characters, so a row before the last is c*(L+1) long.  The
\* documented list gives the documented rows at widths 30 and 15.
C23_WrapToColumn ==
    (op = "wrap_to_column" /\ self # <<>>) =>
        LET c == ClaimedColumns(self, args[1], args[2])
            cell == LongestItem(self) + 1
            n == Len(self)
        IN  /\ ret[1] = "return"
            /\ Len(ret[2]) = CeilDiv(n, c)
            /\ \A r \in 1..Len(ret[2]) :
                   LET first == (r - 1) * c + 1
                       last == Min(r * c, n)
                   IN  /\ ret[2][r][1] = "str"
                       /\ Len(ret[2][r][2]) = (last - first + 1) * cell
                       /\ r < Len(ret[2]) => Len(ret[2][r][2]) = c * cell
                       /\ \A k \in first..last :
                              SubSeq(ret[2][r][2],
                                     (k - first) * cell + 1,
                                     (k - first + 1) * cell)
                                  = PaddedTo(self[k][2], cell)
            /\ (self = DocWrapList /\ args = <<30, 4>>) => ret[2] = DocWrapped30
            /\ (self = DocWrapList /\ args = <<15, 4>>) => ret[2] = DocWrapped15

\* A list wrapped into more than one row of more than one column, the last
\* row shorter, with an item shorter than the longest.
C23_Witness ==
    /\ op = "wrap_to_column"
    /\ ret[1] = "return"
    /\ Len(ret[2]) > 1
    /\ Len(ret[2][1][2]) > LongestItem(self) + 1
    /\ Len(ret[2][Len(ret[2])][2]) < Len(ret[2][1][2])
    /\ \E i \in 1..Len(self) : Len(self[i][2]) < LongestItem(self)

\* The documented list wrapped at width 30
C23_WitnessDoc ==
    /\ op = "wrap_to_column"
    /\ self = DocWrapList
    /\ args = <<30, 4>>
    /\ ret = Returned(DocWrapped30)

(***************************************************************************)
(* Claims on retry (SpecRetry).                                            *)
(***************************************************************************)

\* The invocations of f in the trace, in order
InvocationsOf(tr) == SelectSeq(tr, LAMBDA ev : ev[1] = "f")

\* What holds of a call of the wrapper at every moment: f has been invoked at
\* most retries times; invocations and sleeps alternate, each sleep of delay
\* seconds; every invocation but the last raised an Exception; and the call
\* is over only after an invocation, not after a sleep.
RetryTraceShape ==
    /\ Len(InvocationsOf(trace)) <= args[1]
    /\ \A k \in 1..Len(trace) :
           IF k % 2 = 1 THEN trace[k][1] = "f"
           ELSE trace[k] = <<"sleep", PyInt(args[2])>>
    /\ \A k \in 1..(Len(trace) - 1) :
           trace[k][1] = "f" =>
               /\ trace[k][2][1] = "raise"
               /\ trace[k][2][2] \in ExceptionClasses
    /\ pc = "done" => (trace # <<>> /\ trace[Len(trace)][1] = "f")

\* C24 as stated: at most n invocations per call, the value of the first
\* invocation that does not raise returned with none after it, a wait of d
\* between two attempts and none after the last, and None returned after the
\* n-th attempt when all n raise, whatever they raise.
C24_RetryAnyRaise ==
    (op = "wrapper") =>
        /\ RetryTraceShape
        /\ pc = "done" =>
               LET last == trace[Len(trace)][2]
               IN  IF last[1] = "return" THEN ret = last
                   ELSE /\ Len(InvocationsOf(trace)) = args[1]
                        /\ ret = Returned(PyNone)

\* C24: the same with "raise" read as "raise an Exception"; an invocation
\* that raises what is not an Exception ends the call at once, and what it
\* raised leaves the wrapper.
C24_Retry ==
    (op = "wrapper") =>
        /\ RetryTraceShape
        /\ pc = "done" =>
               LET last == trace[Len(trace)][2]
               IN  IF last[1] = "return" THEN ret = last
                   ELSE IF last[2] \in ExceptionClasses
                   THEN /\ Len(InvocationsOf(trace)) = args[1]
                        /\ ret = Returned(PyNone)
                   ELSE ret = last

\* Three attempts that all raise an Exception, two sleeps between them, None
\* returned.
C24_Witness ==
    /\ op = "wrapper"
    /\ pc = "done"
    /\ args[1] = 3
    /\ Len(trace) = 5
    /\ Len(InvocationsOf(trace)) = 3
    /\ trace[5][2][1] = "raise"
    /\ ret = Returned(PyNone)

\* A second attempt that returns a value ends the call of a wrapper with
\* three attempts.
C24_WitnessReturn ==
    /\ op = "wrapper"
    /\ pc = "done"
    /\ args[1] = 3
    /\ Len(trace) = 3
    /\ ret = Returned(PyInt(1))

(***************************************************************************)
(* Claims on APIRequest.fetch_data (SpecFetch).                            *)
(***************************************************************************)

\* Where the calls start in the trace, and the part of the trace that is the
\* call starting at k.
CallStarts == {k \in 1..Len(trace) : trace[k][1] = "call"}

CallAt(k) ==
    LET later == {j \in CallStarts : j > k}
        next == IF later = {} THEN Len(trace) + 1
                ELSE CHOOSE j \in later : \A i \in later : j <= i
    IN  SubSeq(trace, k, next - 1)

LastCall == CallAt(CHOOSE k \in CallStarts : \A j \in CallStarts : j <= k)

\* Of a call: whether it was made with update=True, what reading the cache
\* gave (if it was read), how many requests it made, what the request gave,
\* whether it wrote the cache, and how it ended.
UpdateOf(call) == call[1][2][2]

WasRead(call) == Len(call) >= 2 /\ call[2][1] = "read"

ReadOf(call) == call[2][2]

RequestsOf(call) == SelectSeq(call, LAMBDA ev : ev[1] = "request")

HasWritten(call) ==
    \E k \in 1..Len(call) : call[k][1] = "write" /\ call[k][2][1] = "return"

IsOver(call) == call[Len(call)][1] = "end"

EndOf(call) == call[Len(call)][2]

\* C25 as stated: a call with update=False that reads a valid JSON document
\* returns it and makes no request; a call with update=True, or one that finds
\* no file or no valid JSON, makes exactly one request and, the request
\* answered, writes the document to the cache and returns it; and a call
\* with update=False after a call that returned returns the same and makes no
\* request.
C25_FetchAlwaysCaches ==
    (op = "fetch_data" /\ pc = "done") =>
        /\ LET call == LastCall
           IN  /\ (WasRead(call) /\ ReadOf(call)[1] = "return") =>
                      /\ EndOf(call) = ReadOf(call)
                      /\ RequestsOf(call) = <<>>
               /\ (UpdateOf(call) \/ ReadOf(call)[1] = "raise") =>
                      /\ Len(RequestsOf(call)) = 1
                      /\ RequestsOf(call)[1][2][1] = "return" =>
                             /\ HasWritten(call)
                             /\ cache = FileOf(json_dump(RequestsOf(call)[1][2][2]))
                             /\ EndOf(call) = RequestsOf(call)[1][2]
        /\ \A j, k \in CallStarts :
               (/\ j < k
                /\ \A i \in CallStarts : ~ (j < i /\ i < k)
                /\ EndOf(CallAt(j))[1] = "return"
                /\ ~ UpdateOf(CallAt(k))) =>
                   /\ EndOf(CallAt(k)) = EndOf(CallAt(j))
                   /\ RequestsOf(CallAt(k)) = <<>>

\* C25: the same where the document is not null and the cache file can be
\* made.  A cached null is read as no cache: the call makes a request as if
\* the file were missing.  Where the directory of json_cache does not exist
\* the document fetched is returned and nothing is written, so the next call
\* makes a request again.  A request that fails ends the call with what it
\* raised and leaves the cache as it was.
C25_Fetch ==
    (op = "fetch_data" /\ pc = "done") =>
        /\ LET call == LastCall
               cached == WasRead(call) /\ ReadOf(call)[1] = "return"
                                       /\ ReadOf(call)[2] # PyNone
           IN  /\ cached =>
                      /\ EndOf(call) = ReadOf(call)
                      /\ RequestsOf(call) = <<>>
                      /\ ~ HasWritten(call)
               /\ ~ cached =>
                      /\ Len(RequestsOf(call)) = 1
                      /\ RequestsOf(call)[1][2][1] = "return" =>
                             /\ EndOf(call) = RequestsOf(call)[1][2]
                             /\ HasWritten(call) = (cache # NoDirectory)
                             /\ cache # NoDirectory =>
                                    cache = FileOf(json_dump(RequestsOf(call)[1][2][2]))
                      /\ RequestsOf(call)[1][2][1] = "raise" =>
                             /\ EndOf(call) = RequestsOf(call)[1][2]
                             /\ ~ HasWritten(call)
        /\ \A j, k \in CallStarts :
               (/\ j < k
                /\ \A i \in CallStarts : ~ (j < i /\ i < k)
                /\ EndOf(CallAt(j))[1] = "return"
                /\ EndOf(CallAt(j))[2] # PyNone
                /\ cache # NoDirectory
                /\ ~ UpdateOf(CallAt(k))) =>
                   /\ EndOf(CallAt(k)) = EndOf(CallAt(j))
                   /\ RequestsOf(CallAt(k)) = <<>>

\* fetch_data(update=True) fetches 2 and writes it; the fetch_data() after it
\* reads 2 from the cache and returns it with no request.
C25_Witness ==
    /\ op = "fetch_data"
    /\ pc = "done"
    /\ trace = << <<"call", PyBool(TRUE)>>,
                  <<"request", Returned(PyInt(2))>>,
                  <<"write", Returned(PyNone)>>,
                  <<"end", Returned(PyInt(2))>>,
                  <<"call", PyBool(FALSE)>>,
                  <<"read", Returned(PyInt(2))>>,
                  <<"end", Returned(PyInt(2))>> >>
    /\ cache = FileOf(<<50>>)
    /\ ret = Returned(PyInt(2))

(***************************************************************************)
(* Claims on group_by_pair_value for every max_loop (SpecGroup).           *)
(***************************************************************************)

\* No value of the pairs is lost, and no group holds values of two
\* components; a max_loop below 3 gives what 3 gives.
GroupsCoverAndStayWithin ==
    /\ args[1] < 3 => ret = group_by_pair_value(self, 3)
    /\ \A v \in ValuesOf(self) : \E i \in 1..Len(ret) : v \in AsSet(ret[i])
    /\ \A i \in 1..Len(ret) :
           /\ ret[i] # <<>>
           /\ AsSet(ret[i]) \subseteq Component(self, ret[i][1])

\* C26 as stated: for every max_loop, every value of the pairs is in some
\* group, every group lies within one connected component, and every group
\* holds, with each of its values, all the values paired with that value.
C26_GroupsClosed ==
    (op = "group_by_pair_value") =>
        /\ GroupsCoverAndStayWithin
        /\ \A i \in 1..Len(ret) :
               \A v \in AsSet(ret[i]) : Linked(self, v) \subseteq AsSet(ret[i])

\* C26: for every max_loop, every value of the pairs is in some group and
\* every group lies within one connected component; and every value has a
\* group that holds it with all the values paired with it.
C26_Groups ==
    (op = "group_by_pair_value") =>
        /\ GroupsCoverAndStayWithin
        /\ \A v \in ValuesOf(self) :
               \E i \in 1..Len(ret) : Linked(self, v) \subseteq AsSet(ret[i])

\* A chain of five pairs grouped with max_loop below 3: a group holds a value
\* without a value paired with it, and every value still has a group that
\* holds it with all the values paired with it.
C26_Witness ==
    /\ op = "group_by_pair_value"
    /\ args = <<MinLoop - 1>>
    /\ Len(self) = 5
    /\ Cardinality(Components(self)) = 1
    /\ \E i \in 1..Len(ret) :
           \E v \in AsSet(ret[i]) : ~ (Linked(self, v) \subseteq AsSet(ret[i]))
    /\ \A v \in ValuesOf(self) :
           \E i \in 1..Len(ret) : Linked(self, v) \subseteq AsSet(ret[i])

=============================================================================
